---- MODULE Spec2Model ----
(***************************************************************************)
(* Model of the Zabbix bulk-administration scripts:                        *)
(*   zabbix_group_update.py  (rename workflow: backup, rename/offline,     *)
(*                            cleanup of emptied groups)                   *)
(*   rollback_script.py      (rollback of names and host membership)       *)
(*   template_replacer.py    (ZabbixAPI._call_api, the class-based client) *)
(* Names are sequences of one-character strings so that prefixing,         *)
(* startswith, split and strip are computed, not assumed.  The Zabbix      *)
(* server is a store of host groups and host memberships; handlers are     *)
(* operators that thread a context (server, calls issued, failing call).   *)
(***************************************************************************)
EXTENDS Integers, Sequences, FiniteSets, TLC

VARIABLES
    server,      \* the remote Zabbix server: groups, membership, next id
    server0,     \* the server as it was when the run began (history)
    atBackup,    \* the server as it was when the backup was taken (history)
    csv,         \* raw rows of group_changes.csv
    pc,          \* position of the rename script / rollback script
    rows,        \* main(): the filtered work list
    rowIdx,      \* main(): index of the row being processed
    groups_to_cleanup, \* main(): ids returned by offline rows
    backup_file, \* the snapshot written by backup_all_groups_and_hosts
    calls,       \* API calls issued by the most recent handler
    mutating,    \* every mutating API call issued so far in the run (history)
    last,        \* what the most recent handler returned / observed
    moved,       \* hosts an offline row moved after the backup (history)
    rbIdx,       \* rollback: index of the snapshot group being processed
    success_count, \* rollback: groups counted as success
    error_count, \* rollback: groups counted as failed
    slept,       \* rollback: number of 0.1 s pauses taken
    failures,    \* API calls that have failed in transport so far (history)
    errors,      \* API calls that ended in an error so far (history)
    api,         \* ZabbixAPI object: auth_token, request_id, session phase
    resp,        \* API client: the transport's answer to the latest request
    sent,        \* API client: the latest request as it went out
    outcome,     \* API client: how the latest call ended
    host_templates, \* template replacer: the host's linked templates on the server
    zbx_triggers, \* template replacer: the host's non-template triggers on the server
    job,         \* template replacer: old and new template id, check_triggers
    trigger_data, \* template replacer: the report of non-template triggers
    warned,      \* template replacer: the numbers logged as invalid
    rb_runs,     \* rollback: the counts of the runs that have ended
    det          \* detector: what one run of the detector reported

vars == <<server, server0, atBackup, csv, pc, rows, rowIdx, groups_to_cleanup,
          backup_file, calls, mutating, last, moved, rbIdx, success_count,
          error_count, slept, failures, errors, api, resp, sent, outcome,
          host_templates, zbx_triggers, job, trigger_data, warned,
          rb_runs, det>>

(***************************************************************************)
(* Bounds of the model                                                     *)
(***************************************************************************)
MaxGroups == 2      \* host groups on the server when the run begins
MaxHosts == 2       \* hosts on the server
MaxRows == 2        \* rows of the CSV
MaxFailAt == 6      \* the failing API call of a handler is one of its first MaxFailAt
MaxFailures == 1    \* transport failures injected in one run of the scripts

(***************************************************************************)
(* Strings                                                                 *)
(***************************************************************************)
Letters == <<"a","b","c","d","e","f","g","h","i","j","k","l","m",
             "n","o","p","q","r","s","t","u","v","w","x","y","z">>

Offline == <<"xia","xian">>             \* the group name '下线' (offline), one token per character
NoChange == <<"wu","xu","xiu","gai">>    \* the sentinel '无需修改' (no change needed)
NameX == <<"X">>
NameY == <<"Y">>
Pre(letter, name) == <<letter, "_">> \o name

\* str.startswith
StartsWith(s, p) == Len(s) >= Len(p) /\ SubSeq(s, 1, Len(p)) = p

\* '_' in s
HasUnderscore(s) == \E i \in 1..Len(s) : s[i] = "_"

\* s.split('_')[0]
RECURSIVE BeforeUnderscore(_)
BeforeUnderscore(s) ==
    IF s = <<>> \/ Head(s) = "_" THEN <<>>
    ELSE <<Head(s)>> \o BeforeUnderscore(Tail(s))

\* str.strip() over the one whitespace character of the model
RECURSIVE LStrip(_)
LStrip(s) == IF s # <<>> /\ Head(s) = " " THEN LStrip(Tail(s)) ELSE s
RECURSIVE RStrip(_)
RStrip(s) ==
    IF s # <<>> /\ s[Len(s)] = " " THEN RStrip(SubSeq(s, 1, Len(s) - 1)) ELSE s
Strip(s) == RStrip(LStrip(s))

(***************************************************************************)
(* Python values of a group id as the cleanup functions receive it          *)
(***************************************************************************)
PyNone == 0          \* None
PyNotInt == -1       \* a value int() rejects (ValueError / TypeError)
IntCoercible(g) == g >= 1

\* ascending sequence of the members of a finite set of integers
RECURSIVE SortedSeq(_)
SortedSeq(S) ==
    IF S = {} THEN <<>>
    ELSE LET m == CHOOSE x \in S : \A y \in S : x <= y
         IN <<m>> \o SortedSeq(S \ {m})

SeqToSet(s) == {s[i] : i \in 1..Len(s)}

(***************************************************************************)
(* The server.  names: existing group id -> name; member: host id -> set   *)
(* of group ids; nextid: the id the next created group gets.               *)
(***************************************************************************)
GroupIds(srv) == DOMAIN srv.names
HostIds(srv) == DOMAIN srv.member
HostsOf(srv, g) == {h \in HostIds(srv) : g \in srv.member[h]}
GroupsNamed(srv, n) == {g \in GroupIds(srv) : srv.names[g] = n}

\* a hostgroup.get result row: groupid, name, hosts (selectHosts)
GroupRow(srv, g) ==
    [groupid |-> g, name |-> srv.names[g], hosts |-> SortedSeq(HostsOf(srv, g))]

RECURSIVE GroupRows(_, _)
GroupRows(srv, ids) ==
    IF ids = <<>> THEN <<>>
    ELSE <<GroupRow(srv, Head(ids))>> \o GroupRows(srv, Tail(ids))

(***************************************************************************)
(* Requests.  One record shape for every method: by says which selector a  *)
(* get uses ("all", "name", "id", "group", "host").                        *)
(***************************************************************************)
Req(method, by, gid, hid, name, groups) ==
    [method |-> method, by |-> by, gid |-> gid, hid |-> hid, name |-> name,
     groups |-> groups]

GetAllGroups == Req("hostgroup.get", "all", 0, 0, <<>>, <<>>)
GetGroupByName(n) == Req("hostgroup.get", "name", 0, 0, n, <<>>)
GetGroupById(g) == Req("hostgroup.get", "id", g, 0, <<>>, <<>>)
CreateGroup(n) == Req("hostgroup.create", "", 0, 0, n, <<>>)
UpdateGroup(g, n) == Req("hostgroup.update", "", g, 0, n, <<>>)
DeleteGroup(g) == Req("hostgroup.delete", "", g, 0, <<>>, <<>>)
GetHostsInGroup(g) == Req("host.get", "group", g, 0, <<>>, <<>>)
GetHost(h) == Req("host.get", "host", 0, h, <<>>, <<>>)
UpdateHost(h, gs) == Req("host.update", "", 0, h, <<>>, gs)

MutatingMethods ==
    {"hostgroup.update", "hostgroup.create", "host.update", "hostgroup.delete"}

(***************************************************************************)
(* What the server does with a request it accepts, and when it answers     *)
(* with a JSON-RPC error instead.                                          *)
(***************************************************************************)
ServerGet(srv, req) ==
    CASE req.method = "hostgroup.get" /\ req.by = "all" ->
            GroupRows(srv, SortedSeq(GroupIds(srv)))
      [] req.method = "hostgroup.get" /\ req.by = "name" ->
            GroupRows(srv, SortedSeq(GroupsNamed(srv, req.name)))
      [] req.method = "hostgroup.get" /\ req.by = "id" ->
            GroupRows(srv, SortedSeq(GroupIds(srv) \cap {req.gid}))
      [] req.method = "host.get" /\ req.by = "group" ->
            \* "limit": 1
            LET hs == SortedSeq(HostsOf(srv, req.gid))
            IN IF hs = <<>> THEN <<>> ELSE <<[hostid |-> hs[1]]>>
      [] req.method = "host.get" /\ req.by = "host" ->
            IF req.hid \in HostIds(srv)
            THEN <<[hostid |-> req.hid,
                    groups |-> SortedSeq(srv.member[req.hid])]>>
            ELSE <<>>

ServerApply(srv, req) ==
    CASE req.method \in {"hostgroup.get", "host.get"} ->
            [srv |-> srv, ok |-> TRUE, res |-> ServerGet(srv, req)]
      [] req.method = "hostgroup.create" ->
            IF GroupsNamed(srv, req.name) # {}
            THEN [srv |-> srv, ok |-> FALSE, res |-> 0]
            ELSE [srv |-> [srv EXCEPT
                              !.names = (srv.nextid :> req.name) @@ srv.names,
                              !.nextid = srv.nextid + 1],
                  ok |-> TRUE, res |-> srv.nextid]
      [] req.method = "hostgroup.update" ->
            IF req.gid \notin GroupIds(srv)
               \/ GroupsNamed(srv, req.name) \ {req.gid} # {}
            THEN [srv |-> srv, ok |-> FALSE, res |-> 0]
            ELSE [srv |-> [srv EXCEPT !.names[req.gid] = req.name],
                  ok |-> TRUE, res |-> 0]
      [] req.method = "hostgroup.delete" ->
            IF req.gid \notin GroupIds(srv)
               \/ \E h \in HostIds(srv) : srv.member[h] = {req.gid}
            THEN [srv |-> srv, ok |-> FALSE, res |-> 0]
            ELSE [srv |-> [srv EXCEPT
                              !.names = [g \in GroupIds(srv) \ {req.gid}
                                            |-> srv.names[g]],
                              !.member = [h \in HostIds(srv)
                                            |-> srv.member[h] \ {req.gid}]],
                  ok |-> TRUE, res |-> 0]
      [] req.method = "host.update" ->
            IF req.hid \notin HostIds(srv) \/ req.groups = <<>>
               \/ ~(SeqToSet(req.groups) \subseteq GroupIds(srv))
            THEN [srv |-> srv, ok |-> FALSE, res |-> 0]
            ELSE [srv |-> [srv EXCEPT !.member[req.hid] = SeqToSet(req.groups)],
                  ok |-> TRUE, res |-> 0]

(***************************************************************************)
(* call_api as the workflows see it: the request is issued; it either      *)
(* returns result['result'] or raises.  ctx.failAt is the position (among  *)
(* the handler's calls) of the call whose transport or response fails.     *)
(* A handler's intermediate values are passed as operator parameters: the  *)
(* operator named after the Python function is its entry point and the     *)
(* operators that follow it are the rest of its body.                      *)
(***************************************************************************)
NewCtx(srv, failAt) == [srv |-> srv, calls |-> <<>>, failAt |-> failAt]

ApiReturn(ctx, req, r, ok) ==
    [ctx |-> [srv |-> IF ok THEN r.srv ELSE ctx.srv,
              calls |-> Append(ctx.calls, [req |-> req, ok |-> ok]),
              failAt |-> ctx.failAt],
     ok |-> ok,
     res |-> IF ok THEN r.res ELSE <<>>]

ApiAnswer(ctx, req, r) ==
    ApiReturn(ctx, req, r, Len(ctx.calls) + 1 # ctx.failAt /\ r.ok)

call_api(ctx, req) == ApiAnswer(ctx, req, ServerApply(ctx.srv, req))

\* the calls of a handler that carry one of the given methods
CallsOf(cs, methods) == {i \in 1..Len(cs) : cs[i].req.method \in methods}
MutatingCalls(cs) ==
    {[method |-> cs[i].req.method, gid |-> cs[i].req.gid, hid |-> cs[i].req.hid,
      name |-> cs[i].req.name, groups |-> cs[i].req.groups, ok |-> cs[i].ok]
       : i \in CallsOf(cs, MutatingMethods)}

(***************************************************************************)
(* zabbix_group_update.py: backup                                          *)
(***************************************************************************)
\* backup[name] = value on a dict kept as a sequence in insertion order
RECURSIVE DictPut(_, _)
DictPut(d, entry) ==
    IF d = <<>> THEN <<entry>>
    ELSE IF Head(d).name = entry.name THEN <<entry>> \o Tail(d)
    ELSE <<Head(d)>> \o DictPut(Tail(d), entry)

RECURSIVE BackupDict(_, _)
BackupDict(all_groups, backup) ==
    IF all_groups = <<>> THEN backup
    ELSE BackupDict(Tail(all_groups),
                    DictPut(backup, [name |-> Head(all_groups).name,
                                     groupid |-> Head(all_groups).groupid,
                                     hosts |-> Head(all_groups).hosts]))

\* lines 64-79, given the answer to hostgroup.get
BackupWritten(r) ==
    IF ~r.ok THEN [ctx |-> r.ctx, exc |-> TRUE, backup |-> <<>>]
    ELSE [ctx |-> r.ctx, exc |-> FALSE, backup |-> BackupDict(r.res, <<>>)]

\* returns the snapshot written to the backup file, or raises (exc)
backup_all_groups_and_hosts(ctx) == BackupWritten(call_api(ctx, GetAllGroups))

(***************************************************************************)
(* zabbix_group_update.py: rename_group and move_hosts_to_group            *)
(***************************************************************************)
\* a prefix list that stops one letter short, at 'y_'
prefixes_to_y == [i \in 1..(Len(Letters) - 1) |-> <<Letters[i], "_">>]

\* a variant of line 85 listing the prefixes from z_ down to a_
prefixes_reversed ==
    [i \in 1..Len(Letters) |-> <<Letters[Len(Letters) + 1 - i], "_">>]

prefixes == [i \in 1..Len(Letters) |-> <<Letters[i], "_">>]

Looked(ctx, exc, result) == [ctx |-> ctx, exc |-> exc, result |-> result]

RECURSIVE PrefixLoop(_, _, _)
RECURSIVE PrefixTried(_, _, _)
\* lines 96-106: the loop over prefixes
PrefixLoop(ctx, i, original_name) ==
    IF i > Len(prefixes) THEN Looked(ctx, FALSE, <<>>)
    ELSE PrefixTried(call_api(ctx, GetGroupByName(prefixes[i] \o original_name)),
                     i, original_name)
PrefixTried(r, i, original_name) ==
    IF ~r.ok THEN Looked(r.ctx, TRUE, <<>>)
    ELSE IF r.res # <<>> THEN Looked(r.ctx, FALSE, r.res)
    ELSE PrefixLoop(r.ctx, i + 1, original_name)

\* lines 95-106: prefixed names only if the exact name returns nothing
ExactTried(r, original_name) ==
    IF ~r.ok THEN Looked(r.ctx, TRUE, <<>>)
    ELSE IF r.res # <<>> THEN Looked(r.ctx, FALSE, r.res)
    ELSE PrefixLoop(r.ctx, 1, original_name)

\* lines 88-106
LookupGroup(ctx, original_name) ==
    ExactTried(call_api(ctx, GetGroupByName(original_name)), original_name)

Moved(ctx, exc) == [ctx |-> ctx, exc |-> exc]

RECURSIVE MoveLoop(_, _, _)
RECURSIVE HostMoved(_, _, _)
\* lines 170-174
MoveLoop(ctx, hostids, target_groupid) ==
    IF hostids = <<>> THEN Moved(ctx, FALSE)
    ELSE HostMoved(call_api(ctx, UpdateHost(Head(hostids), <<target_groupid>>)),
                   hostids, target_groupid)
\* a variant that goes on to the next host after a failed host.update
HostMoved_carry_on(r, hostids, target_groupid) ==
    MoveLoop(r.ctx, Tail(hostids), target_groupid)

HostMoved(r, hostids, target_groupid) ==
    IF ~r.ok THEN Moved(r.ctx, TRUE)
    ELSE MoveLoop(r.ctx, Tail(hostids), target_groupid)

\* lines 167-174
TargetCreated(c, hostids) ==
    IF ~c.ok THEN Moved(c.ctx, TRUE) ELSE MoveLoop(c.ctx, hostids, c.res)

\* lines 164-174
TargetLooked(g, hostids, target_group_name) ==
    IF ~g.ok THEN Moved(g.ctx, TRUE)
    ELSE IF g.res # <<>> THEN MoveLoop(g.ctx, hostids, g.res[1].groupid)
    ELSE TargetCreated(call_api(g.ctx, CreateGroup(target_group_name)), hostids)

move_hosts_to_group(ctx, hostids, target_group_name) ==
    IF hostids = <<>> THEN Moved(ctx, FALSE)
    ELSE TargetLooked(call_api(ctx, GetGroupByName(target_group_name)),
                      hostids, target_group_name)

\* line 133: old_name.split('_')[0] + '_'
PrefixOf(old_name) == BeforeUnderscore(old_name) \o <<"_">>

\* a variant that prepends the prefix without looking at new_name
FinalNewName_always_prepend(old_name, new_name) ==
    IF HasUnderscore(old_name) THEN PrefixOf(old_name) \o new_name ELSE new_name

\* lines 131-135: keep the current name's prefix
FinalNewName(old_name, new_name) ==
    IF HasUnderscore(old_name) /\ ~StartsWith(new_name, PrefixOf(old_name))
    THEN PrefixOf(old_name) \o new_name
    ELSE new_name

\* ret: the group id handed back for cleanup, PyNone otherwise.
\* how: which branch ended the call; resolved: the id of the matched group.
RenameResult(ctx, ret, how, resolved) ==
    [ctx |-> ctx, ret |-> ret, how |-> how, resolved |-> resolved]

\* lines 124-128 and the except of line 147
OfflineDone(m, groupid) ==
    IF m.exc THEN RenameResult(m.ctx, PyNone, "failed", groupid)
    ELSE RenameResult(m.ctx, groupid, "moved", groupid)

\* lines 139-145 and the except of line 147
RenameDone(u, groupid) ==
    IF ~u.ok THEN RenameResult(u.ctx, PyNone, "failed", groupid)
    ELSE RenameResult(u.ctx, PyNone, "renamed", groupid)

\* a variant without the branch of lines 123-128: the name is always written
RenameMatched_no_offline(ctx, group, new_name) ==
    RenameDone(call_api(ctx, UpdateGroup(group.groupid,
                                         FinalNewName(group.name, new_name))),
               group.groupid)

\* lines 118-145
RenameMatched(ctx, group, new_name) ==
    IF new_name = Offline
    THEN OfflineDone(move_hosts_to_group(ctx, group.hosts, Offline), group.groupid)
    ELSE RenameDone(call_api(ctx, UpdateGroup(group.groupid,
                                              FinalNewName(group.name, new_name))),
                    group.groupid)

\* a variant without the branch of lines 112-116: the first match is used
RenameLooked_first_of_many(l, new_name) ==
    IF l.exc THEN RenameResult(l.ctx, PyNone, "failed", 0)
    ELSE IF l.result = <<>> THEN RenameResult(l.ctx, PyNone, "not_found", 0)
    ELSE RenameMatched(l.ctx, l.result[1], new_name)

\* lines 108-145
RenameLooked(l, new_name) ==
    IF l.exc THEN RenameResult(l.ctx, PyNone, "failed", 0)
    ELSE IF l.result = <<>> THEN RenameResult(l.ctx, PyNone, "not_found", 0)
    ELSE IF Len(l.result) > 1 THEN RenameResult(l.ctx, PyNone, "ambiguous", 0)
    ELSE RenameMatched(l.ctx, l.result[1], new_name)

rename_group(ctx, original_name, new_name) ==
    RenameLooked(LookupGroup(ctx, original_name), new_name)

(***************************************************************************)
(* zabbix_group_update.py: cleanup of emptied groups                       *)
(***************************************************************************)
\* line 197 and the except of line 198
EmptyAnswer(r) ==
    IF ~r.ok THEN [ctx |-> r.ctx, ret |-> FALSE]
    ELSE [ctx |-> r.ctx, ret |-> Len(r.res) = 0]

is_group_empty(ctx, groupid) ==
    IF groupid = PyNone THEN [ctx |-> ctx, ret |-> FALSE]
    ELSE IF ~IntCoercible(groupid) THEN [ctx |-> ctx, ret |-> FALSE]
    ELSE EmptyAnswer(call_api(ctx, GetHostsInGroup(groupid)))

\* empty: what is_group_empty answered ("not_asked" when it was not called)
Deleted(ctx, ret, empty) == [ctx |-> ctx, ret |-> ret, empty |-> empty]

\* lines 224-233
DeleteAnswer(d) == Deleted(d.ctx, d.ok, "yes")

\* a variant without the check of line 218: the delete is always sent
DeleteUnchecked(d, was_empty) ==
    Deleted(d.ctx, d.ok, IF was_empty THEN "yes" ELSE "no")
DeleteIfEmpty_unchecked(e, groupid) ==
    DeleteUnchecked(call_api(e.ctx, DeleteGroup(groupid)), e.ret)

\* lines 218-233
DeleteIfEmpty(e, groupid) ==
    IF ~e.ret THEN Deleted(e.ctx, FALSE, "no")
    ELSE DeleteAnswer(call_api(e.ctx, DeleteGroup(groupid)))

delete_empty_group(ctx, groupid) ==
    IF groupid = PyNone THEN Deleted(ctx, FALSE, "not_asked")
    ELSE IF ~IntCoercible(groupid) THEN Deleted(ctx, FALSE, "not_asked")
    ELSE DeleteIfEmpty(is_group_empty(ctx, groupid), groupid)

\* one record per delete_empty_group invocation: the hosts the group had on
\* the server when it was invoked, what is_group_empty answered, whether a
\* hostgroup.delete was issued and what was returned
DeleteRecord(before, groupid, d) ==
    [groupid |-> groupid,
     nhosts |-> IF groupid \in GroupIds(before.srv)
                THEN Cardinality(HostsOf(before.srv, groupid)) ELSE 0,
     empty |-> d.empty,
     delete_issued |-> \E i \in (Len(before.calls) + 1)..Len(d.ctx.calls) :
                           d.ctx.calls[i].req.method = "hostgroup.delete",
     ret |-> d.ret]

Cleaned(ctx, deleted_count, trace) ==
    [ctx |-> ctx, deleted_count |-> deleted_count, trace |-> trace]

RECURSIVE CleanupLoop(_, _, _, _)
RECURSIVE GroupInfoGot(_, _, _, _)
RECURSIVE GroupHandled(_, _, _, _, _)
\* lines 244-274
CleanupLoop(ctx, ids, deleted_count, trace) ==
    IF ids = <<>> THEN Cleaned(ctx, deleted_count, trace)
    ELSE IF Head(ids) = PyNone \/ ~IntCoercible(Head(ids))
         THEN CleanupLoop(ctx, Tail(ids), deleted_count, trace)
    ELSE GroupInfoGot(call_api(ctx, GetGroupById(Head(ids))), ids,
                      deleted_count, trace)
GroupInfoGot(gi, ids, deleted_count, trace) ==
    IF ~gi.ok \/ gi.res = <<>>
    THEN CleanupLoop(gi.ctx, Tail(ids), deleted_count, trace)
    ELSE GroupHandled(gi.ctx, delete_empty_group(gi.ctx, Head(ids)), ids,
                      deleted_count, trace)
GroupHandled(before, d, ids, deleted_count, trace) ==
    CleanupLoop(d.ctx, Tail(ids),
                IF d.ret THEN deleted_count + 1 ELSE deleted_count,
                Append(trace, DeleteRecord(before, Head(ids), d)))

cleanup_empty_groups(ctx, group_ids_to_check) ==
    IF group_ids_to_check = <<>> THEN Cleaned(ctx, 0, <<>>)
    ELSE CleanupLoop(ctx, group_ids_to_check, 0, <<>>)

(***************************************************************************)
(* rollback_script.py                                                      *)
(***************************************************************************)
\* [gid for gid in group_ids if gid not in offline_groupids]
RECURSIVE WithoutOffline(_, _)
WithoutOffline(group_ids, offline_groupids) ==
    IF group_ids = <<>> THEN <<>>
    ELSE IF Head(group_ids) \in offline_groupids
         THEN WithoutOffline(Tail(group_ids), offline_groupids)
    ELSE <<Head(group_ids)>> \o WithoutOffline(Tail(group_ids), offline_groupids)

\* a variant without lines 118-119: the target is not added
EnsureTarget_skipped(new_group_ids, target_groupid) == new_group_ids

\* lines 118-119
EnsureTarget(new_group_ids, target_groupid) ==
    IF target_groupid \notin SeqToSet(new_group_ids)
    THEN Append(new_group_ids, target_groupid) ELSE new_group_ids

\* lines 122-123
AtLeastOne(new_group_ids, target_groupid) ==
    IF new_group_ids = <<>> THEN <<target_groupid>> ELSE new_group_ids

\* lines 117-123: the group list pushed for one host
NewGroupIds(group_ids, offline_groupids, target_groupid) ==
    AtLeastOne(EnsureTarget(WithoutOffline(group_ids, offline_groupids),
                            target_groupid),
               target_groupid)

Restored(ctx, exc) == [ctx |-> ctx, exc |-> exc]

RECURSIVE RestoreLoop(_, _, _, _)
RECURSIVE HostGot(_, _, _, _)
RECURSIVE HostPushed(_, _, _, _)
\* lines 101-135
RestoreLoop(ctx, hosts, offline_groupids, target_groupid) ==
    IF hosts = <<>> THEN Restored(ctx, FALSE)
    ELSE HostGot(call_api(ctx, GetHost(Head(hosts))), hosts, offline_groupids,
                 target_groupid)
HostGot(hi, hosts, offline_groupids, target_groupid) ==
    IF ~hi.ok \/ hi.res = <<>>
    THEN RestoreLoop(hi.ctx, Tail(hosts), offline_groupids, target_groupid)
    ELSE HostPushed(call_api(hi.ctx,
                             UpdateHost(Head(hosts),
                                        NewGroupIds(hi.res[1].groups,
                                                    offline_groupids,
                                                    target_groupid))),
                    hosts, offline_groupids, target_groupid)
HostPushed(u, hosts, offline_groupids, target_groupid) ==
    RestoreLoop(u.ctx, Tail(hosts), offline_groupids, target_groupid)

\* lines 99-135
OfflineLooked(o, hosts, target_groupid) ==
    IF ~o.ok THEN Restored(o.ctx, TRUE)
    ELSE RestoreLoop(o.ctx, hosts, {o.res[i].groupid : i \in 1..Len(o.res)},
                     target_groupid)

restore_hosts_to_group(ctx, hosts, target_groupid) ==
    IF hosts = <<>> THEN Restored(ctx, FALSE)
    ELSE OfflineLooked(call_api(ctx, GetGroupByName(Offline)), hosts,
                       target_groupid)

\* One iteration of the loop of rollback_group_names (lines 27-78).
\* counted: "success" or "error"; path: the branch taken; sleeps: whether the
\* pause of line 78 was reached; target: the id hosts were restored into.
RollbackStep(ctx, counted, path, sleeps, target) ==
    [ctx |-> ctx, counted |-> counted, path |-> path, sleeps |-> sleeps,
     target |-> target]

\* a variant in which a recreated group is counted on neither side
RecreatedRestored_uncounted(h, new_groupid) ==
    RollbackStep(h.ctx, "none", "recreated", FALSE, new_groupid)

\* lines 47-52
RecreatedRestored(h, new_groupid) ==
    IF h.exc THEN RollbackStep(h.ctx, "error", "recreate_failed", FALSE, new_groupid)
    ELSE RollbackStep(h.ctx, "success", "recreated", FALSE, new_groupid)

\* a variant of line 46 that restores the hosts into the snapshot's id
Recreated_stale_id(c, info) ==
    IF ~c.ok THEN RollbackStep(c.ctx, "error", "recreate_failed", FALSE, 0)
    ELSE RecreatedRestored(restore_hosts_to_group(c.ctx, info.hosts,
                                                  info.groupid),
                           c.res)

\* lines 41-52
Recreated(c, info) ==
    IF ~c.ok THEN RollbackStep(c.ctx, "error", "recreate_failed", FALSE, 0)
    ELSE RecreatedRestored(restore_hosts_to_group(c.ctx, info.hosts, c.res),
                           c.res)

\* lines 66-78
RenamedBack(u, info) ==
    IF ~u.ok THEN RollbackStep(u.ctx, "error", "exception", TRUE, info.groupid)
    ELSE RollbackStep(u.ctx, "success", "renamed", TRUE, info.groupid)

\* a variant that renames whatever the current name is
NeedsRename_always(current_name, old_name) == TRUE

\* line 60: is the rename back needed
NeedsRename(current_name, old_name) == current_name # old_name

\* lines 60-78
ExistingRestored(h, current_name, info) ==
    IF h.exc THEN RollbackStep(h.ctx, "error", "exception", TRUE, info.groupid)
    ELSE IF NeedsRename(current_name, info.name)
         THEN RenamedBack(call_api(h.ctx, UpdateGroup(info.groupid, info.name)),
                          info)
    ELSE RollbackStep(h.ctx, "success", "same_name", TRUE, info.groupid)

\* a variant that renames the group back before restoring its hosts
RestoredAfterRename(u, info) ==
    IF ~u.ok THEN RollbackStep(u.ctx, "error", "exception", TRUE, info.groupid)
    ELSE ExistingRestored(restore_hosts_to_group(u.ctx, info.hosts, info.groupid),
                          info.name, info)
GroupChecked_rename_first(r, info) ==
    IF ~r.ok THEN RollbackStep(r.ctx, "error", "exception", TRUE, 0)
    ELSE IF r.res = <<>>
         THEN Recreated(call_api(r.ctx, CreateGroup(info.name)), info)
    ELSE IF NeedsRename(r.res[1].name, info.name)
         THEN RestoredAfterRename(call_api(r.ctx, UpdateGroup(info.groupid,
                                                              info.name)),
                                  info)
    ELSE ExistingRestored(restore_hosts_to_group(r.ctx, info.hosts, info.groupid),
                          r.res[1].name, info)

\* lines 37-78
GroupChecked(r, info) ==
    IF ~r.ok THEN RollbackStep(r.ctx, "error", "exception", TRUE, 0)
    ELSE IF r.res = <<>>
         THEN Recreated(call_api(r.ctx, CreateGroup(info.name)), info)
    ELSE ExistingRestored(restore_hosts_to_group(r.ctx, info.hosts, info.groupid),
                          r.res[1].name, info)

rollback_one_group(ctx, info) ==
    GroupChecked(call_api(ctx, GetGroupById(info.groupid)), info)

(***************************************************************************)
(* zabbix_group_update.py: main()                                          *)
(***************************************************************************)
Login == Req("user.login", "", 0, 0, <<>>, <<>>)

LoggedIn(ctx, ok) ==
    [ctx |-> [ctx EXCEPT !.calls = Append(ctx.calls, [req |-> Login, ok |-> ok])],
     exc |-> ~ok]

\* get_auth_token: response.json()['result'], or an exception that ends the script
get_auth_token(ctx) == LoggedIn(ctx, Len(ctx.calls) + 1 # ctx.failAt)

\* a variant without the comparison with the sentinel of line 305
RowKept_no_sentinel(row) ==
    /\ Strip(row.new) # <<>>
    /\ Strip(row.orig) # <<>>

\* lines 300-310: does a row of the CSV become work
RowKept(row) ==
    /\ Strip(row.new) # <<>>
    /\ Strip(row.new) # NoChange
    /\ Strip(row.orig) # <<>>

\* lines 297-314
RECURSIVE ReadCsv(_)
ReadCsv(raw) ==
    IF raw = <<>> THEN <<>>
    ELSE IF RowKept(Head(raw))
         THEN <<[orig |-> Strip(Head(raw).orig), new |-> Strip(Head(raw).new)]>>
              \o ReadCsv(Tail(raw))
    ELSE ReadCsv(Tail(raw))

\* where main() goes after get_auth_token (line 286)
AfterLogin(exc) == IF exc THEN "aborted" ELSE "backup"
\* a variant in which main() carries on after a failed backup
AfterBackup_carry_on(exc) == "rows"
\* where main() goes after backup_all_groups_and_hosts (line 317): an
\* exception is not caught, so the script ends
AfterBackup(exc) == IF exc THEN "aborted" ELSE "rows"
\* line 329: which returned ids are kept for cleanup
KeepForCleanup(original_groupid, new_name) ==
    original_groupid # PyNone /\ new_name = Offline

\* hosts whose host.update succeeded among the calls of a handler
HostsUpdated(cs) ==
    {cs[i].req.hid : i \in {j \in CallsOf(cs, {"host.update"}) : cs[j].ok}}

\* the positions at which a handler's API call may fail in transport
FailChoices(maxf) == IF failures < MaxFailures THEN 0..maxf ELSE {0}
\* whether the handler reached the call that was set to fail
Injected(ctx) == ctx.failAt # 0 /\ ctx.failAt <= Len(ctx.calls)
Count(ctx) == IF Injected(ctx) THEN failures + 1 ELSE failures
\* the calls of a handler that ended in an error
ErrorsIn(ctx) == Cardinality({i \in 1..Len(ctx.calls) : ~ctx.calls[i].ok})

StartWith(t) ==
    /\ calls' = t.ctx.calls
    /\ failures' = Count(t.ctx)
    /\ errors' = errors + ErrorsIn(t.ctx)
    /\ pc' = AfterLogin(t.exc)
    /\ rows' = IF t.exc THEN <<>> ELSE ReadCsv(csv)
    /\ last' = [op |-> "get_auth_token"]

\* lines 286-314
Start ==
    /\ pc = "start"
    /\ \E f \in FailChoices(1) : StartWith(get_auth_token(NewCtx(server, f)))
    /\ UNCHANGED <<rb_runs, det, server, server0, atBackup, csv, rowIdx, groups_to_cleanup,
                   backup_file, mutating, moved, rbIdx, success_count,
                   error_count, slept, api, resp, sent, outcome,
                   host_templates, zbx_triggers, job, trigger_data, warned>>

BackupWith(b) ==
    /\ calls' = b.ctx.calls
    /\ failures' = Count(b.ctx)
    /\ errors' = errors + ErrorsIn(b.ctx)
    /\ server' = b.ctx.srv
    /\ pc' = AfterBackup(b.exc)
    /\ backup_file' = IF b.exc THEN backup_file
                      ELSE [written |-> TRUE, data |-> b.backup]
    /\ mutating' = mutating \cup MutatingCalls(b.ctx.calls)
    /\ last' = [op |-> "backup", exc |-> b.exc]

\* lines 316-317
Backup ==
    /\ pc = "backup"
    /\ \E f \in FailChoices(1) :
          BackupWith(backup_all_groups_and_hosts(NewCtx(server, f)))
    /\ atBackup' = server
    /\ rowIdx' = 1
    /\ UNCHANGED <<rb_runs, det, server0, csv, rows, groups_to_cleanup, moved, rbIdx,
                   success_count, error_count, slept, api, resp, sent, outcome,
                   host_templates, zbx_triggers, job, trigger_data, warned>>

\* a variant of lines 328-330 that keeps the matched group of every row
RowWith_keep_resolved(row, r) ==
    /\ calls' = r.ctx.calls
    /\ failures' = Count(r.ctx)
    /\ errors' = errors + ErrorsIn(r.ctx)
    /\ server' = r.ctx.srv
    /\ groups_to_cleanup' =
         IF r.resolved # 0
         THEN groups_to_cleanup \cup {r.resolved} ELSE groups_to_cleanup
    /\ mutating' = mutating \cup MutatingCalls(r.ctx.calls)
    /\ moved' = IF row.new = Offline
                THEN moved \cup HostsUpdated(r.ctx.calls) ELSE moved
    /\ last' = [op |-> "rename_group", orig |-> row.orig,
                new |-> row.new, ret |-> r.ret, how |-> r.how,
                resolved |-> r.resolved,
                old_name |-> IF r.resolved \in GroupIds(server)
                             THEN server.names[r.resolved] ELSE <<>>,
                hosts_before |-> IF r.resolved \in GroupIds(server)
                                 THEN HostsOf(server, r.resolved) ELSE {}]

\* last: what the call did, with the matched group's name and hosts as they
\* were on the server before the call
RowWith(row, r) ==
    /\ calls' = r.ctx.calls
    /\ failures' = Count(r.ctx)
    /\ errors' = errors + ErrorsIn(r.ctx)
    /\ server' = r.ctx.srv
    /\ groups_to_cleanup' =
         IF KeepForCleanup(r.ret, row.new)
         THEN groups_to_cleanup \cup {r.ret} ELSE groups_to_cleanup
    /\ mutating' = mutating \cup MutatingCalls(r.ctx.calls)
    /\ moved' = IF row.new = Offline
                THEN moved \cup HostsUpdated(r.ctx.calls) ELSE moved
    /\ last' = [op |-> "rename_group", orig |-> row.orig,
                new |-> row.new, ret |-> r.ret, how |-> r.how,
                resolved |-> r.resolved,
                old_name |-> IF r.resolved \in GroupIds(server)
                             THEN server.names[r.resolved] ELSE <<>>,
                hosts_before |-> IF r.resolved \in GroupIds(server)
                                 THEN HostsOf(server, r.resolved) ELSE {}]

\* one iteration of the loop of lines 322-331
ProcessRow ==
    /\ pc = "rows"
    /\ rowIdx <= Len(rows)
    /\ \E f \in FailChoices(MaxFailAt) :
          RowWith(rows[rowIdx],
                  rename_group(NewCtx(server, f), rows[rowIdx].orig,
                               rows[rowIdx].new))
    /\ rowIdx' = rowIdx + 1
    /\ UNCHANGED <<rb_runs, det, server0, atBackup, csv, pc, rows, backup_file, rbIdx,
                   success_count, error_count, slept, api, resp, sent, outcome,
                   host_templates, zbx_triggers, job, trigger_data, warned>>

\* the orders list(groups_to_cleanup) can come out in
Orders(S) ==
    {s \in [1..Cardinality(S) -> S] : \A x \in S : \E i \in DOMAIN s : s[i] = x}

CleanupWith(c) ==
    /\ calls' = c.ctx.calls
    /\ failures' = Count(c.ctx)
    /\ errors' = errors + ErrorsIn(c.ctx)
    /\ server' = c.ctx.srv
    /\ mutating' = mutating \cup MutatingCalls(c.ctx.calls)
    /\ last' = [op |-> "cleanup", deleted_count |-> c.deleted_count,
                trace |-> c.trace]

\* a variant in which the cleanup does not wait for the last row
Cleanup_early ==
    /\ pc = "rows"
    /\ \E f \in FailChoices(MaxFailAt), order \in Orders(groups_to_cleanup) :
          CleanupWith(IF groups_to_cleanup # {}
                      THEN cleanup_empty_groups(NewCtx(server, f), order)
                      ELSE Cleaned(NewCtx(server, f), 0, <<>>))
    /\ pc' = "done"
    /\ UNCHANGED <<rb_runs, det, server0, atBackup, csv, rows, rowIdx, groups_to_cleanup,
                   backup_file, moved, rbIdx, success_count, error_count,
                   slept, api, resp, sent, outcome,
                   host_templates, zbx_triggers, job, trigger_data, warned>>

\* lines 333-340
Cleanup ==
    /\ pc = "rows"
    /\ rowIdx > Len(rows)
    /\ \E f \in FailChoices(MaxFailAt), order \in Orders(groups_to_cleanup) :
          CleanupWith(IF groups_to_cleanup # {}
                      THEN cleanup_empty_groups(NewCtx(server, f), order)
                      ELSE Cleaned(NewCtx(server, f), 0, <<>>))
    /\ pc' = "done"
    /\ UNCHANGED <<rb_runs, det, server0, atBackup, csv, rows, rowIdx, groups_to_cleanup,
                   backup_file, moved, rbIdx, success_count, error_count,
                   slept, api, resp, sent, outcome,
                   host_templates, zbx_triggers, job, trigger_data, warned>>

\* the values delete_empty_group can be handed as groupid
GroupIdArgs == {PyNone, PyNotInt} \cup (1..(MaxGroups + 1))

DirectWith(groupid, before, d) ==
    /\ calls' = d.ctx.calls
    /\ failures' = Count(d.ctx)
    /\ errors' = errors + ErrorsIn(d.ctx)
    /\ server' = d.ctx.srv
    /\ mutating' = mutating \cup MutatingCalls(d.ctx.calls)
    /\ last' = [op |-> "delete_empty_group",
                record |-> DeleteRecord(before, groupid, d)]

\* delete_empty_group called on its own, with any groupid
DeleteEmptyGroupCall ==
    /\ pc = "direct"
    /\ \E groupid \in GroupIdArgs, f \in FailChoices(2) :
          DirectWith(groupid, NewCtx(server, f),
                     delete_empty_group(NewCtx(server, f), groupid))
    /\ pc' = "direct_done"
    /\ UNCHANGED <<rb_runs, det, server0, atBackup, csv, rows, rowIdx, groups_to_cleanup,
                   backup_file, moved, rbIdx, success_count, error_count,
                   slept, api, resp, sent, outcome,
                   host_templates, zbx_triggers, job, trigger_data, warned>>

(***************************************************************************)
(* rollback_script.py: __main__ and the loop of rollback_group_names       *)
(***************************************************************************)
\* str.lower() on the characters the prompt's answers use
LowerChar(c) == IF c = "Y" THEN "y" ELSE IF c = "N" THEN "n" ELSE c
Lower(s) == [i \in 1..Len(s) |-> LowerChar(s[i])]
\* a variant that goes on whatever was answered
Confirmed_always(confirm) == TRUE

\* line 159
Confirmed(confirm) == Lower(confirm) = <<"y">>

Answers == {<<"y">>, <<"Y">>, <<"n">>, <<>>}

PromptWith(confirm, t) ==
    /\ calls' = t.ctx.calls
    /\ failures' = Count(t.ctx)
    /\ errors' = errors + ErrorsIn(t.ctx)
    /\ pc' = IF ~Confirmed(confirm) THEN "rb_cancelled"
             ELSE IF t.exc THEN "rb_aborted"
             ELSE IF backup_file.data = <<>> THEN "rb_done"
             ELSE "rollback"
    /\ last' = [op |-> "rollback_prompt", confirm |-> confirm]

\* lines 142-163: pick the backup file, ask, log in
RollbackPrompt ==
    /\ pc \in {"done", "aborted"}
    /\ IF ~backup_file.written
       THEN /\ pc' = "rb_nofile"
            /\ calls' = <<>>
            /\ failures' = failures
            /\ errors' = errors
            /\ last' = [op |-> "rollback_prompt", confirm |-> <<>>]
       ELSE \/ \E confirm \in Answers, f \in FailChoices(1) :
                  PromptWith(confirm,
                             IF Confirmed(confirm)
                             THEN get_auth_token(NewCtx(server, f))
                             ELSE [ctx |-> NewCtx(server, 0), exc |-> FALSE])
            \/ \* KeyboardInterrupt at input(), line 157: nothing catches it
               /\ pc' = "rb_interrupted"
               /\ calls' = <<>>
               /\ failures' = failures
               /\ errors' = errors
               /\ last' = [op |-> "rollback_prompt_interrupted",
                           confirm |-> <<>>]
    /\ rbIdx' = 1
    /\ UNCHANGED <<rb_runs, det, server, server0, atBackup, csv, rows, rowIdx,
                   groups_to_cleanup, backup_file, mutating, moved,
                   success_count, error_count, slept, api, resp, sent, outcome,
                   host_templates, zbx_triggers, job, trigger_data, warned>>

\* last: what the iteration did, with the group's name on the server before it
GroupWith(info, s) ==
    /\ calls' = s.ctx.calls
    /\ failures' = Count(s.ctx)
    /\ errors' = errors + ErrorsIn(s.ctx)
    /\ server' = s.ctx.srv
    /\ success_count' = IF s.counted = "success" THEN success_count + 1
                        ELSE success_count
    /\ error_count' = IF s.counted = "error" THEN error_count + 1
                      ELSE error_count
    /\ slept' = IF s.sleeps THEN slept + 1 ELSE slept
    /\ last' = [op |-> "rollback_group", info |-> info,
                counted |-> s.counted, path |-> s.path, target |-> s.target,
                name_before |-> IF info.groupid \in GroupIds(server)
                                THEN server.names[info.groupid] ELSE <<>>,
                existed |-> info.groupid \in GroupIds(server)]

\* one iteration of the loop of rollback_group_names
RollbackGroup ==
    /\ pc = "rollback"
    /\ rbIdx <= Len(backup_file.data)
    /\ \E f \in FailChoices(MaxFailAt) :
          GroupWith(backup_file.data[rbIdx],
                    rollback_one_group(NewCtx(server, f), backup_file.data[rbIdx]))
    /\ rbIdx' = rbIdx + 1
    /\ pc' = IF rbIdx = Len(backup_file.data) THEN "rb_done" ELSE "rollback"
    /\ UNCHANGED <<rb_runs, det, server0, atBackup, csv, rows, rowIdx, groups_to_cleanup,
                   backup_file, mutating, moved, api, resp, sent, outcome,
                   host_templates, zbx_triggers, job, trigger_data, warned>>

MaxReruns == 1    \* further runs of the rollback script after the first

\* what a run that has ended leaves behind for the comparison with the next
RunEnded == [success_count |-> success_count, error_count |-> error_count,
             errors |-> errors, server |-> server]

\* lines 137-163 and 24-25, the rollback script started once more after a run
\* of it has ended: the same backup file is the latest, the counters of
\* rollback_group_names start at zero
RollbackAgain ==
    /\ pc = "rb_done"
    /\ Len(rb_runs) < MaxReruns
    /\ backup_file.written
    /\ \E confirm \in Answers, f \in FailChoices(1) :
          PromptWith(confirm,
                     IF Confirmed(confirm)
                     THEN get_auth_token(NewCtx(server, f))
                     ELSE [ctx |-> NewCtx(server, 0), exc |-> FALSE])
    /\ rb_runs' = Append(rb_runs, RunEnded)
    /\ rbIdx' = 1
    /\ success_count' = 0
    /\ error_count' = 0
    /\ slept' = 0
    /\ UNCHANGED <<det, server, server0, atBackup, csv, rows, rowIdx,
                   groups_to_cleanup, backup_file, mutating, moved, api, resp,
                   sent, outcome, host_templates, zbx_triggers, job,
                   trigger_data, warned>>

(***************************************************************************)
(* The API clients at the level of one HTTP exchange.                      *)
(* A response is what the transport hands back: it may never arrive        *)
(* (timeout, connection error); otherwise it has an HTTP status and a      *)
(* body, which is not JSON, or a JSON object with an "error" member, with  *)
(* a "result" member, or with neither.                                     *)
(***************************************************************************)
MaxRequests == 3    \* requests one ZabbixAPI object sends in a session

NoToken == <<>>                      \* auth_token = None
Tokens == {<<"t1">>, <<"t2">>}       \* values a "result" member carries
HttpOk == 200
HttpServerError == 500

Responses ==
    {[transport |-> t, status |-> 0, body |-> "none", result |-> NoToken] :
        t \in {"timeout", "connection_error"}}
    \cup {[transport |-> "ok", status |-> s, body |-> b, result |-> NoToken] :
            s \in {HttpOk, HttpServerError},
            b \in {"not_json", "error", "neither"}}
    \cup {[transport |-> "ok", status |-> s, body |-> "result", result |-> v] :
            s \in {HttpOk, HttpServerError}, v \in Tokens}

Raised == [kind |-> "error", value |-> NoToken]
Returned(v) == [kind |-> "result", value |-> v]
Waiting == [kind |-> "waiting", value |-> NoToken]

\* response.raise_for_status()
HttpFailed(response) == response.status >= 400

\* ZabbixAPI._call_api, lines 78-102: what the call ends in
ClassOutcome(response) ==
    IF response.transport = "timeout" THEN Raised
    ELSE IF response.transport = "connection_error" THEN Raised
    ELSE IF HttpFailed(response) THEN Raised
    ELSE IF response.body = "not_json" THEN Raised
    ELSE IF response.body = "error" THEN Raised
    ELSE IF response.body = "result" THEN Returned(response.result)
    ELSE Returned(NoToken)      \* result.get("result") of an object without it

\* call_api of zabbix_group_update.py, lines 50-54: requests.post is given no
\* timeout, so a server that never answers leaves the call waiting, and the
\* HTTP status is not looked at
ScriptOutcome(response) ==
    IF response.transport = "timeout" THEN Waiting
    ELSE IF response.transport = "connection_error" THEN Raised
    ELSE IF response.body = "not_json" THEN Raised
    ELSE IF response.body = "error" THEN Raised
    ELSE IF response.body = "result" THEN Returned(response.result)
    ELSE Raised                 \* result['result']: KeyError

\* a variant that never attaches the header
ClassAuthorization_none(auth_token, auth_required) == NoToken

\* ZabbixAPI._call_api, lines 72-74: the Authorization header, if any
ClassAuthorization(auth_token, auth_required) ==
    IF auth_required /\ auth_token # NoToken THEN auth_token ELSE NoToken

NewApi == [auth_token |-> NoToken, request_id |-> 1, phase |-> "new"]
NoResponse == [transport |-> "idle", status |-> 0, body |-> "none",
               result |-> NoToken]
NoRequest == [client |-> "none", method |-> "", authorization |-> NoToken,
              id |-> 0]
NoOutcome == [kind |-> "none", value |-> NoToken]

ClassRequestSent(method, auth_required) ==
    [client |-> "ZabbixAPI", method |-> method,
     authorization |-> ClassAuthorization(api.auth_token, auth_required),
     id |-> api.request_id]

\* ZabbixAPI.__enter__ / login, lines 104-116
ClassLogin ==
    /\ pc = "api"
    /\ api.phase = "new"
    /\ \E response \in Responses :
         /\ resp' = response
         /\ sent' = ClassRequestSent("user.login", FALSE)
         /\ outcome' = ClassOutcome(response)
         /\ api' = IF ClassOutcome(response).kind = "error"
                   THEN [api EXCEPT !.request_id = @ + 1, !.phase = "closed"]
                   ELSE [auth_token |-> ClassOutcome(response).value,
                         request_id |-> api.request_id + 1,
                         phase |-> "session"]
    /\ UNCHANGED <<rb_runs, det, server, server0, atBackup, csv, pc, rows, rowIdx,
                   groups_to_cleanup, backup_file, calls, mutating, last,
                   moved, rbIdx, success_count, error_count, slept, failures,
                   errors,
                   host_templates, zbx_triggers, job, trigger_data, warned>>

\* any other method sent through ZabbixAPI._call_api inside the with-block
ClassRequest ==
    /\ pc = "api"
    /\ api.phase = "session"
    /\ api.request_id <= MaxRequests
    /\ \E response \in Responses, method \in {"host.get", "host.update"} :
         /\ resp' = response
         /\ sent' = ClassRequestSent(method, TRUE)
         /\ outcome' = ClassOutcome(response)
         /\ api' = [api EXCEPT !.request_id = @ + 1]
    /\ UNCHANGED <<rb_runs, det, server, server0, atBackup, csv, pc, rows, rowIdx,
                   groups_to_cleanup, backup_file, calls, mutating, last,
                   moved, rbIdx, success_count, error_count, slept, failures,
                   errors,
                   host_templates, zbx_triggers, job, trigger_data, warned>>

\* ZabbixAPI.__exit__ / logout, lines 118-127
ClassLogout ==
    /\ pc = "api"
    /\ api.phase = "session"
    /\ IF api.auth_token # NoToken
       THEN \E response \in Responses :
              /\ resp' = response
              /\ sent' = ClassRequestSent("user.logout", TRUE)
              /\ outcome' = ClassOutcome(response)
              /\ api' = [auth_token |-> NoToken,
                         request_id |-> api.request_id + 1,
                         phase |-> "closed"]
       ELSE /\ api' = [api EXCEPT !.phase = "closed"]
            /\ UNCHANGED <<resp, sent, outcome,
                   host_templates, zbx_triggers, job, trigger_data, warned>>
    /\ UNCHANGED <<rb_runs, det, server, server0, atBackup, csv, pc, rows, rowIdx,
                   groups_to_cleanup, backup_file, calls, mutating, last,
                   moved, rbIdx, success_count, error_count, slept, failures,
                   errors,
                   host_templates, zbx_triggers, job, trigger_data, warned>>

\* call_api of zabbix_group_update.py, used by the rename and rollback scripts
ScriptRequest ==
    /\ pc = "api"
    /\ api.phase = "new"
    /\ \E response \in Responses, token \in Tokens,
          method \in {"hostgroup.get", "host.update"} :
         /\ resp' = response
         /\ sent' = [client |-> "call_api", method |-> method,
                     authorization |-> token, id |-> 1]
         /\ outcome' = ScriptOutcome(response)
         /\ api' = [api EXCEPT !.phase = "script"]
    /\ UNCHANGED <<rb_runs, det, server, server0, atBackup, csv, pc, rows, rowIdx,
                   groups_to_cleanup, backup_file, calls, mutating, last,
                   moved, rbIdx, success_count, error_count, slept, failures,
                   errors,
                   host_templates, zbx_triggers, job, trigger_data, warned>>

(***************************************************************************)
(* template_replacer.py: replacing a host's template, then the report of   *)
(* non-template triggers and their deletion at the prompt.  One host; the  *)
(* server keeps its linked templates and its non-template triggers.        *)
(***************************************************************************)
MaxTemplates == 3    \* template ids known to the server
MaxTriggers == 2     \* non-template triggers the host can have
MaxFields == 2       \* comma-separated fields typed at the selection prompt
MaxFieldLen == 2     \* characters in one field

TheHost == 1

TReq(method, id, templates) ==
    [method |-> method, id |-> id, templates |-> templates]
GetHostById(host_id) == TReq("host.get", host_id, <<>>)
UpdateTemplates(host_id, templates) == TReq("host.update", host_id, templates)
GetTriggers(host_id) == TReq("trigger.get", host_id, <<>>)
DeleteTrigger(trigger_id) == TReq("trigger.delete", trigger_id, <<>>)

NewTCtx(templates, triggers, failAt) ==
    [templates |-> templates, triggers |-> triggers, calls |-> <<>>,
     failAt |-> failAt]

TAnswer(ctx, req, ok, res, templates, triggers) ==
    [ctx |-> [templates |-> IF ok THEN templates ELSE ctx.templates,
              triggers |-> IF ok THEN triggers ELSE ctx.triggers,
              calls |-> Append(ctx.calls, [req |-> req, ok |-> ok]),
              failAt |-> ctx.failAt],
     ok |-> ok,
     res |-> IF ok THEN res ELSE <<>>]

NoDuplicates(s) == \A i, j \in 1..Len(s) : i # j => s[i] # s[j]

\* what the server answers to a request of the template replacer; the call
\* at position failAt raises whatever the server would have answered
TUp(ctx) == Len(ctx.calls) + 1 # ctx.failAt
TServer(ctx, req) ==
    CASE req.method = "host.get" ->
            TAnswer(ctx, req, TUp(ctx),
                    <<[hostid |-> req.id, parentTemplates |-> ctx.templates]>>,
                    ctx.templates, ctx.triggers)
      [] req.method = "host.update" ->
            TAnswer(ctx, req, TUp(ctx) /\ NoDuplicates(req.templates), <<>>,
                    req.templates, ctx.triggers)
      [] req.method = "trigger.get" ->
            TAnswer(ctx, req, TUp(ctx), SortedSeq(ctx.triggers),
                    ctx.templates, ctx.triggers)
      [] req.method = "trigger.delete" ->
            TAnswer(ctx, req, TUp(ctx) /\ req.id \in ctx.triggers, <<>>,
                    ctx.templates, ctx.triggers \ {req.id})

\* ZabbixAPI._call_api as replace_host_template and delete_trigger use it
ClassCall(ctx, req) == TServer(ctx, req)

\* a variant that pushes the new template alone, dropping the others
BuildTemplates_only_new(current_templates, old_template_id, new_template_id, new_templates, template_replaced) ==
    [new_templates |-> <<new_template_id>>,
     template_replaced |-> old_template_id \in SeqToSet(current_templates)]

\* lines 217-228: the new list and whether the old template was met
RECURSIVE BuildTemplates(_, _, _, _, _)
BuildTemplates(current_templates, old_template_id, new_template_id, new_templates, template_replaced) ==
    IF current_templates = <<>>
    THEN [new_templates |-> new_templates,
          template_replaced |-> template_replaced]
    ELSE IF Head(current_templates) = old_template_id
         THEN BuildTemplates(Tail(current_templates), old_template_id,
                             new_template_id,
                             Append(new_templates, new_template_id), TRUE)
    ELSE BuildTemplates(Tail(current_templates), old_template_id,
                        new_template_id,
                        Append(new_templates, Head(current_templates)),
                        template_replaced)

\* ret: what replace_host_template returns; how: the branch that ended it;
\* current: the list host.get returned; pushed: the list sent, if any
Replaced(ctx, ret, how, current, pushed) ==
    [ctx |-> ctx, ret |-> ret, how |-> how, current |-> current,
     pushed |-> pushed]

\* lines 235-245
TemplatesPushed(u, current, pushed) ==
    Replaced(u.ctx, u.ok, IF u.ok THEN "replaced" ELSE "failed", current, pushed)

\* lines 230-245
TemplatesBuilt(ctx, host_id, current, b) ==
    IF ~b.template_replaced
    THEN Replaced(ctx, FALSE, "not_attached", current, <<>>)
    ELSE TemplatesPushed(ClassCall(ctx, UpdateTemplates(host_id, b.new_templates)),
                         current, b.new_templates)

\* lines 210-245
HostFetched(h, host_id, old_template_id, new_template_id) ==
    IF ~h.ok THEN Replaced(h.ctx, FALSE, "failed", <<>>, <<>>)
    ELSE IF h.res = <<>> THEN Replaced(h.ctx, FALSE, "no_host", <<>>, <<>>)
    ELSE TemplatesBuilt(h.ctx, host_id, h.res[1].parentTemplates,
                        BuildTemplates(h.res[1].parentTemplates,
                                       old_template_id, new_template_id,
                                       <<>>, FALSE))

replace_host_template(ctx, host_id, old_template_id, new_template_id) ==
    HostFetched(ClassCall(ctx, GetHostById(host_id)), host_id, old_template_id,
                new_template_id)

\* get_host_non_template_triggers / analyze_host_triggers: the report rows
\* (trigger ids), empty when trigger.get raised
TriggersGot(t) == [ctx |-> t.ctx, trigger_data |-> IF t.ok THEN t.res ELSE <<>>]
analyze_host_triggers(ctx, host_id) == TriggersGot(ClassCall(ctx, GetTriggers(host_id)))

DeletedSome(ctx, n_deleted, invalid) ==
    [ctx |-> ctx, success_count |-> n_deleted, invalid |-> invalid]

\* _delete_all_triggers, lines 516-522
RECURSIVE DeleteAllLoop(_, _, _)
RECURSIVE DeleteAllNext(_, _, _)
DeleteAllLoop(ctx, data, n_deleted) ==
    IF data = <<>> THEN DeletedSome(ctx, n_deleted, <<>>)
    ELSE DeleteAllNext(ClassCall(ctx, DeleteTrigger(Head(data))), data,
                       n_deleted)
DeleteAllNext(d, data, n_deleted) ==
    DeleteAllLoop(d.ctx, Tail(data),
                  IF d.ok THEN n_deleted + 1 ELSE n_deleted)

\* ---- the text typed at the selection prompt ----
DigitChars == {"0", "1", "2", "3", "4", "5", "6", "7", "8", "9"}
DigitValue(c) ==
    CASE c = "0" -> 0 [] c = "1" -> 1 [] c = "2" -> 2 [] c = "3" -> 3
      [] c = "4" -> 4 [] c = "5" -> 5 [] c = "6" -> 6 [] c = "7" -> 7
      [] c = "8" -> 8 [] c = "9" -> 9

RECURSIVE DecimalValue(_, _)
DecimalValue(s, acc) ==
    IF s = <<>> THEN acc
    ELSE DecimalValue(Tail(s), acc * 10 + DigitValue(Head(s)))

AllDigits(s) == s # <<>> /\ \A i \in 1..Len(s) : s[i] \in DigitChars

\* int(x.strip()): ok is FALSE where int() raises ValueError
ParseInt(x) ==
    IF AllDigits(Strip(x))
    THEN [ok |-> TRUE, value |-> DecimalValue(Strip(x), 0)]
    ELSE IF Strip(x) # <<>> /\ Head(Strip(x)) = "-" /\ AllDigits(Tail(Strip(x)))
         THEN [ok |-> TRUE, value |-> 0 - DecimalValue(Tail(Strip(x)), 0)]
    ELSE [ok |-> FALSE, value |-> 0]

\* ','.join(fields)
RECURSIVE JoinComma(_)
JoinComma(fields) ==
    IF fields = <<>> THEN <<>>
    ELSE IF Len(fields) = 1 THEN fields[1]
    ELSE fields[1] \o <<",">> \o JoinComma(Tail(fields))

\* s.split(',')
RECURSIVE SplitComma(_, _)
SplitComma(s, field) ==
    IF s = <<>> THEN <<field>>
    ELSE IF Head(s) = "," THEN <<field>> \o SplitComma(Tail(s), <<>>)
    ELSE SplitComma(Tail(s), Append(field, Head(s)))

\* line 538: the entered numbers, or a ValueError
Indices(indices_input) ==
    [k \in 1..Len(SplitComma(indices_input, <<>>)) |->
        ParseInt(SplitComma(indices_input, <<>>)[k])]
AllParsed(indices) == \A k \in 1..Len(indices) : indices[k].ok

\* lines 541-548, over the entered numbers minus one
RECURSIVE SelectLoop(_, _, _, _, _)
RECURSIVE SelectNext(_, _, _, _, _)
\* a variant whose lower bound is off by one: number 1 is refused
InReport_from_two(index, data) == 1 <= index /\ index < Len(data)

\* line 542: the bounds check on a 0-based index
InReport(index, data) == 0 <= index /\ index < Len(data)
SelectLoop(ctx, indices, data, n_deleted, invalid) ==
    IF indices = <<>> THEN DeletedSome(ctx, n_deleted, invalid)
    ELSE IF InReport(Head(indices).value - 1, data)
         THEN SelectNext(ClassCall(ctx, DeleteTrigger(data[Head(indices).value])),
                         indices, data, n_deleted, invalid)
    ELSE SelectLoop(ctx, Tail(indices), data, n_deleted,
                    Append(invalid, Head(indices).value))
SelectNext(d, indices, data, n_deleted, invalid) ==
    SelectLoop(d.ctx, Tail(indices), data,
               IF d.ok THEN n_deleted + 1 ELSE n_deleted, invalid)

\* a variant that converts the fields one at a time while deleting: the
\* numbers before the first field that is not a number are acted on
RECURSIVE LeadingParsed(_)
LeadingParsed(indices) ==
    IF indices = <<>> \/ ~Head(indices).ok THEN <<>>
    ELSE <<Head(indices)>> \o LeadingParsed(Tail(indices))
Selected_field_by_field(ctx, indices_input, data) ==
    IF indices_input = <<>> THEN DeletedSome(ctx, 0, <<>>)
    ELSE SelectLoop(ctx, LeadingParsed(Indices(indices_input)), data, 0, <<>>)

\* _selective_delete_triggers from the input on, lines 533-555
Selected(ctx, indices_input, data) ==
    IF indices_input = <<>> THEN DeletedSome(ctx, 0, <<>>)
    ELSE IF ~AllParsed(Indices(indices_input)) THEN DeletedSome(ctx, 0, <<>>)
    ELSE SelectLoop(ctx, Indices(indices_input), data, 0, <<>>)
_selective_delete_triggers(ctx, typed, data) == Selected(ctx, Strip(typed), data)

\* ---- the run of replace_template_for_host ----
\* where the run goes after replace_host_template (lines 433-444)
AfterReplace(ret, check_triggers) ==
    IF ret /\ check_triggers THEN "tr_check" ELSE "tr_done"
\* lines 460-472
AfterAnalysis(data) == IF data # <<>> THEN "tr_prompt" ELSE "tr_done"
\* lines 498-505: which choices delete
ChoiceDeletesAll(choice) == choice = <<"1">>
ChoiceSelects(choice) == choice = <<"2">>

ReplaceWith(r) ==
    /\ calls' = r.ctx.calls
    /\ failures' = Count(r.ctx)
    /\ errors' = errors + ErrorsIn(r.ctx)
    /\ host_templates' = r.ctx.templates
    /\ pc' = AfterReplace(r.ret, job.check_triggers)
    /\ last' = [op |-> "replace_host_template", ret |-> r.ret, how |-> r.how,
                current |-> r.current, pushed |-> r.pushed]

\* lines 433-444: replace_host_template for the host
ReplaceTemplate ==
    /\ pc = "tr_start"
    /\ \E f \in FailChoices(2) :
          ReplaceWith(replace_host_template(
                          NewTCtx(host_templates, zbx_triggers, f), TheHost,
                          job.old_template_id, job.new_template_id))
    /\ UNCHANGED <<rb_runs, det, server, server0, atBackup, csv, rows, rowIdx,
                   groups_to_cleanup, backup_file, mutating, moved, rbIdx,
                   success_count, error_count, slept, api, resp, sent, outcome,
                   zbx_triggers, job, trigger_data, warned>>

AnalysisWith(a) ==
    /\ calls' = a.ctx.calls
    /\ failures' = Count(a.ctx)
    /\ errors' = errors + ErrorsIn(a.ctx)
    /\ trigger_data' = a.trigger_data
    /\ pc' = AfterAnalysis(a.trigger_data)
    /\ last' = [op |-> "check_triggers"]

\* _check_non_template_triggers up to the prompt, lines 449-496
CheckTriggers ==
    /\ pc = "tr_check"
    /\ \E f \in FailChoices(1) :
          AnalysisWith(analyze_host_triggers(
                           NewTCtx(host_templates, zbx_triggers, f), TheHost))
    /\ UNCHANGED <<rb_runs, det, server, server0, atBackup, csv, rows, rowIdx,
                   groups_to_cleanup, backup_file, mutating, moved, rbIdx,
                   success_count, error_count, slept, api, resp, sent, outcome,
                   host_templates, zbx_triggers, job, warned>>

\* what can be typed at the prompt of line 496
Choices == {<<"1">>, <<"2">>, <<"3">>, <<>>, <<"y">>, <<" ", "1">>,
            <<"1", "2">>, <<"2", " ">>}

DeletionWith(op, typed, d, before) ==
    /\ calls' = d.ctx.calls
    /\ failures' = Count(d.ctx)
    /\ errors' = errors + ErrorsIn(d.ctx)
    /\ zbx_triggers' = d.ctx.triggers
    /\ warned' = d.invalid
    /\ last' = [op |-> op, typed |-> typed, success_count |-> d.success_count,
                triggers_before |-> before]

\* _prompt_trigger_deletion from the answer on, lines 496-510; choice 2 goes
\* on to the input of _selective_delete_triggers
PromptChoice ==
    /\ pc = "tr_prompt"
    /\ \/ \E typed \in Choices, f \in FailChoices(MaxTriggers) :
            /\ DeletionWith("prompt", typed,
                            IF ChoiceDeletesAll(Strip(typed))
                            THEN DeleteAllLoop(NewTCtx(host_templates,
                                                       zbx_triggers, f),
                                               trigger_data, 0)
                            ELSE DeletedSome(NewTCtx(host_templates,
                                                     zbx_triggers, f), 0, <<>>),
                            zbx_triggers)
            /\ pc' = IF ChoiceSelects(Strip(typed)) THEN "tr_select"
                     ELSE "tr_done"
       \/ \* KeyboardInterrupt at input()
          /\ DeletionWith("prompt_interrupted", <<>>,
                          DeletedSome(NewTCtx(host_templates, zbx_triggers, 0),
                                      0, <<>>),
                          zbx_triggers)
          /\ pc' = "tr_done"
    /\ UNCHANGED <<rb_runs, det, server, server0, atBackup, csv, rows, rowIdx,
                   groups_to_cleanup, backup_file, mutating, moved, rbIdx,
                   success_count, error_count, slept, api, resp, sent, outcome,
                   host_templates, job, trigger_data>>

\* what can be typed at the prompt of line 533
FieldChars == {"-", "0", "1", "2", " "}
Fields == UNION {[1..n -> FieldChars] : n \in 0..MaxFieldLen}
Selections == UNION {{JoinComma(fs) : fs \in [1..n -> Fields]} : n \in 1..MaxFields}

\* _selective_delete_triggers from the input on, lines 533-555
SelectTriggers ==
    /\ pc = "tr_select"
    /\ \/ \E typed \in Selections, f \in FailChoices(MaxFields) :
            DeletionWith("select", typed,
                         _selective_delete_triggers(
                             NewTCtx(host_templates, zbx_triggers, f), typed,
                             trigger_data),
                         zbx_triggers)
       \/ \* KeyboardInterrupt at input()
          DeletionWith("select_interrupted", <<>>,
                       DeletedSome(NewTCtx(host_templates, zbx_triggers, 0),
                                   0, <<>>),
                       zbx_triggers)
    /\ pc' = "tr_done"
    /\ UNCHANGED <<rb_runs, det, server, server0, atBackup, csv, rows, rowIdx,
                   groups_to_cleanup, backup_file, mutating, moved, rbIdx,
                   success_count, error_count, slept, api, resp, sent, outcome,
                   host_templates, job, trigger_data>>

(***************************************************************************)
(* The detector (zabbix_detector.py): one run of main in mode host or      *)
(* hostgroup.  The server's monitoring data is part of det: per host the   *)
(* items (each with its triggers, selectTriggers) and the triggers.  A     *)
(* dict member the API left out is Missing; ids are list positions.        *)
(***************************************************************************)
MaxItems == 2           \* items of the host checked in mode host
MaxNested == 1          \* triggers listed under one item
MaxHostTriggers == 1    \* triggers of the host checked in mode host
MaxGroupHosts == 2      \* hosts of the group checked in mode hostgroup

Missing == "missing"    \* the key is not in the dict
None == "None"

\* dict.get(key, default)
get(d, key, default) == IF d[key] = Missing THEN default ELSE d[key]

\* truth value of an optional string
Truthy(v) == v # None /\ v # ""

TemplateIdValues == {Missing, "", "0", "10"}
StatusValues == {Missing, "0", "1"}

NestedKinds ==
    UNION {[1..n -> [templateid : TemplateIdValues]] : n \in 0..MaxNested}
ItemKinds ==
    [templateid : TemplateIdValues, status : StatusValues,
     triggers : NestedKinds]
TriggerKinds == [templateid : TemplateIdValues, status : StatusValues]

HostKinds ==
    [items : UNION {[1..n -> ItemKinds] : n \in 0..MaxItems},
     triggers : UNION {[1..n -> TriggerKinds] : n \in 0..MaxHostTriggers}]
GroupHostKinds ==
    [items : {<<>>} \cup {<<k>> : k \in {i \in ItemKinds : i.triggers = <<>>}},
     triggers : {<<>>}]

\* lines 154-160: the answer to item.get for a host
get_host_items(host) ==
    [i \in 1..Len(host.items) |->
        [itemid |-> i,
         templateid |-> host.items[i].templateid,
         status |-> host.items[i].status,
         triggers |-> [j \in 1..Len(host.items[i].triggers) |->
                          [triggerid |-> 10 * i + j,
                           templateid |-> host.items[i].triggers[j].templateid]]]]

\* lines 162-168: the answer to trigger.get for a host
get_host_triggers(host) ==
    [i \in 1..Len(host.triggers) |->
        [triggerid |-> i,
         templateid |-> host.triggers[i].templateid,
         status |-> host.triggers[i].status]]

\* a variant that takes only "0" for no template
IsNonTemplate_zero_only(d) == get(d, "templateid", None) = "0"

\* lines 262, 293, 314
IsNonTemplate(d) == ~Truthy(get(d, "templateid", None)) \/ get(d, "templateid", None) = "0"

\* lines 275, 332
IsDisabled(d) == get(d, "status", "0") = "1"

\* line 287
IsTemplateItem(item) == Truthy(get(item, "templateid", None)) /\ get(item, "templateid", None) # "0"

ZeroSummary ==
    [non_template_items |-> 0, non_template_triggers |-> 0,
     disabled_items |-> 0, disabled_triggers |-> 0,
     template_items_with_non_template_triggers |-> 0]

\* lines 241-257
EmptyResult(host_id) ==
    [host_id |-> host_id,
     non_template_items |-> <<>>,
     non_template_triggers |-> <<>>,
     disabled_items |-> <<>>,
     disabled_triggers |-> <<>>,
     template_items_with_non_template_triggers |-> <<>>,
     summary |-> ZeroSummary]

\* lines 290-299
RECURSIVE NonTemplateTriggersForItem(_)
NonTemplateTriggersForItem(item_triggers) ==
    IF item_triggers = <<>> THEN <<>>
    ELSE (IF IsNonTemplate(Head(item_triggers))
          THEN <<Head(item_triggers).triggerid>> ELSE <<>>)
         \o NonTemplateTriggersForItem(Tail(item_triggers))

\* lines 262-272
ItemNonTemplate(item, result) ==
    IF IsNonTemplate(item)
    THEN [result EXCEPT !.non_template_items = Append(@, item.itemid),
                        !.summary.non_template_items = @ + 1]
    ELSE result

\* lines 275-284
ItemDisabled(item, result) ==
    IF IsDisabled(item)
    THEN [result EXCEPT !.disabled_items = Append(@, item.itemid),
                        !.summary.disabled_items = @ + 1]
    ELSE result

\* lines 301-309
ItemTriggersListed(item, found, result) ==
    IF found # <<>>
    THEN [result EXCEPT
            !.template_items_with_non_template_triggers =
                Append(@, [item_id |-> item.itemid,
                           template_id |-> item.templateid,
                           non_template_triggers |-> found]),
            !.summary.template_items_with_non_template_triggers =
                @ + Len(found)]
    ELSE result

\* lines 287-309
ItemTemplateTriggers(item, result) ==
    IF IsTemplateItem(item)
    THEN ItemTriggersListed(item, NonTemplateTriggersForItem(item.triggers),
                            result)
    ELSE result

\* lines 260-309
RECURSIVE ItemLoop(_, _)
ItemLoop(items, result) ==
    IF items = <<>> THEN result
    ELSE ItemLoop(Tail(items),
                  ItemTemplateTriggers(Head(items),
                      ItemDisabled(Head(items),
                          ItemNonTemplate(Head(items), result))))

\* lines 314-329
TriggerNonTemplate(trigger, result) ==
    IF IsNonTemplate(trigger)
    THEN [result EXCEPT !.non_template_triggers = Append(@, trigger.triggerid),
                        !.summary.non_template_triggers = @ + 1]
    ELSE result

\* lines 332-341
TriggerDisabled(trigger, result) ==
    IF IsDisabled(trigger)
    THEN [result EXCEPT !.disabled_triggers = Append(@, trigger.triggerid),
                        !.summary.disabled_triggers = @ + 1]
    ELSE result

\* lines 312-341
RECURSIVE TriggerLoop(_, _)
TriggerLoop(triggers, result) ==
    IF triggers = <<>> THEN result
    ELSE TriggerLoop(Tail(triggers),
                     TriggerDisabled(Head(triggers),
                         TriggerNonTemplate(Head(triggers), result)))

\* lines 229-343, given the answers to item.get and trigger.get
DetectHostIssuesOf(host_id, items, triggers) ==
    TriggerLoop(triggers, ItemLoop(items, EmptyResult(host_id)))

\* lines 219-225
SummaryAdded(summary, host_summary) ==
    [summary EXCEPT
        !.non_template_items = @ + host_summary.non_template_items,
        !.non_template_triggers = @ + host_summary.non_template_triggers,
        !.disabled_items = @ + host_summary.disabled_items,
        !.disabled_triggers = @ + host_summary.disabled_triggers,
        !.template_items_with_non_template_triggers =
            @ + host_summary.template_items_with_non_template_triggers]

\* one exchange of the detector's ZabbixAPI as the run's log keeps it
DetCall(method, host_id, ok) == [method |-> method, host_id |-> host_id, ok |-> ok]

\* lines 58-60 and 118-127: leaving the with block logs out; a failure of
\* the logout is logged and goes no further
Logout(cs, logout_ok) == Append(cs, DetCall("user.logout", 0, logout_ok))

NoReport == [written |-> FALSE]

\* the state of a run before main's try block
DetectorIdle(mode, found, hosts) ==
    [mode |-> mode, found |-> found, hosts |-> hosts, idx |-> 0,
     results |-> <<>>, summary |-> ZeroSummary, calls |-> <<>>,
     report |-> NoReport, exit |-> "running"]

\* lines 630-632: an exception that reaches main ends the run with exit 1
DetFailed(cs) ==
    /\ det' = [det EXCEPT !.calls = cs, !.exit = "1"]
    /\ pc' = "det_failed"

\* lines 181-183, 192-194, 197-199 with 584 and 606: an empty result is not
\* reported; the run ends normally
DetNothing(cs) ==
    /\ det' = [det EXCEPT !.calls = cs, !.exit = "0"]
    /\ pc' = "det_done"

\* the first request of a mode: host.get by name, hostgroup.get by name
FirstLookup == IF det.mode = "host" THEN "host.get" ELSE "hostgroup.get"

\* lines 569-577, __enter__ (53-56, 104-116), and the lookups of
\* detect_by_host (180-183) or detect_by_hostgroup (191-212).
\* fail_at: which request of the step fails, 0 for none
DetectStartWith(fail_at, logout_ok) ==
    IF fail_at = 1
    THEN DetFailed(<<DetCall("user.login", 0, FALSE)>>)
    ELSE IF fail_at = 2
    THEN DetFailed(Logout(<<DetCall("user.login", 0, TRUE),
                            DetCall(FirstLookup, 0, FALSE)>>, logout_ok))
    ELSE IF ~det.found
    THEN DetNothing(Logout(<<DetCall("user.login", 0, TRUE),
                             DetCall(FirstLookup, 0, TRUE)>>, logout_ok))
    ELSE IF det.mode = "host"
    THEN /\ det' = [det EXCEPT !.calls = <<DetCall("user.login", 0, TRUE),
                                           DetCall(FirstLookup, 0, TRUE)>>,
                               !.idx = 1]
         /\ pc' = "det_hosts"
    ELSE IF fail_at = 3
    THEN DetFailed(Logout(<<DetCall("user.login", 0, TRUE),
                            DetCall(FirstLookup, 0, TRUE),
                            DetCall("host.get", 0, FALSE)>>, logout_ok))
    ELSE IF det.hosts = <<>>
    THEN DetNothing(Logout(<<DetCall("user.login", 0, TRUE),
                             DetCall(FirstLookup, 0, TRUE),
                             DetCall("host.get", 0, TRUE)>>, logout_ok))
    ELSE /\ det' = [det EXCEPT !.calls = <<DetCall("user.login", 0, TRUE),
                                           DetCall(FirstLookup, 0, TRUE),
                                           DetCall("host.get", 0, TRUE)>>,
                               !.idx = 1]
         /\ pc' = "det_hosts"

DetectStart ==
    /\ pc = "det_start"
    /\ \E fail_at \in 0..3, logout_ok \in BOOLEAN :
          DetectStartWith(fail_at, logout_ok)
    /\ UNCHANGED <<rb_runs, server, server0, atBackup, csv, rows, rowIdx,
                   groups_to_cleanup, backup_file, calls, mutating, last,
                   moved, rbIdx, success_count, error_count, slept, failures,
                   errors, api, resp, sent, outcome, host_templates,
                   zbx_triggers, job, trigger_data, warned>>

\* lines 215-225 (mode hostgroup) or 185 (mode host) after a host's check
HostChecked(cs, host_result) ==
    /\ det' = [det EXCEPT !.calls = cs,
                          !.results = Append(@, host_result),
                          !.summary = SummaryAdded(@, host_result.summary),
                          !.idx = @ + 1]
    /\ pc' = IF det.idx = Len(det.hosts) THEN "det_report" ELSE "det_hosts"

\* one call of _detect_host_issues (229-343) from the loop of lines 214-225
\* or from line 185: nothing between the two requests and main catches an
\* exception
DetectHostWith(host_id, fail_at, logout_ok) ==
    IF fail_at = 1
    THEN DetFailed(Logout(Append(det.calls, DetCall("item.get", host_id, FALSE)),
                          logout_ok))
    ELSE IF fail_at = 2
    THEN DetFailed(Logout(det.calls \o <<DetCall("item.get", host_id, TRUE),
                                         DetCall("trigger.get", host_id, FALSE)>>,
                          logout_ok))
    ELSE HostChecked(det.calls \o <<DetCall("item.get", host_id, TRUE),
                                    DetCall("trigger.get", host_id, TRUE)>>,
                     DetectHostIssuesOf(host_id,
                                        get_host_items(det.hosts[host_id]),
                                        get_host_triggers(det.hosts[host_id])))

DetectHostIssues ==
    /\ pc = "det_hosts"
    /\ det.idx <= Len(det.hosts)
    /\ \E fail_at \in 0..2, logout_ok \in BOOLEAN :
          DetectHostWith(det.idx, fail_at, logout_ok)
    /\ UNCHANGED <<rb_runs, server, server0, atBackup, csv, rows, rowIdx,
                   groups_to_cleanup, backup_file, calls, mutating, last,
                   moved, rbIdx, success_count, error_count, slept, failures,
                   errors, api, resp, sent, outcome, host_templates,
                   zbx_triggers, job, trigger_data, warned>>

\* lines 584-602 and 606-625: the reports are written from the result, then
\* the with block is left
DetectReport ==
    /\ pc = "det_report"
    /\ \E logout_ok \in BOOLEAN :
          det' = [det EXCEPT
                    !.report = [written |-> TRUE,
                                host_ids |-> [i \in 1..Len(det.results) |->
                                                 det.results[i].host_id],
                                total_hosts |-> Len(det.hosts),
                                summary |-> det.summary],
                    !.calls = Logout(det.calls, logout_ok),
                    !.exit = "0"]
    /\ pc' = "det_done"
    /\ UNCHANGED <<rb_runs, server, server0, atBackup, csv, rows, rowIdx,
                   groups_to_cleanup, backup_file, calls, mutating, last,
                   moved, rbIdx, success_count, error_count, slept, failures,
                   errors, api, resp, sent, outcome, host_templates,
                   zbx_triggers, job, trigger_data, warned>>

(***************************************************************************)
(* Initial states and the specification of the two scripts run in turn     *)
(***************************************************************************)
InitNames == {NameX, Pre("a", NameX), Offline}
OrigRaw == {NameX, Offline}
NewRaw == {Offline, NoChange, NameY}
RawRows == [orig : OrigRaw, new : NewRaw]

InitServers ==
    {[names |-> n, member |-> m, nextid |-> MaxGroups + 1] :
        n \in {x \in [1..MaxGroups -> InitNames] :
                  \A i, j \in 1..MaxGroups : i # j => x[i] # x[j]},
        m \in [1..MaxHosts -> SUBSET (1..MaxGroups) \ {{}}]}

Csvs == UNION {[1..k -> RawRows] : k \in 0..MaxRows}

\* the detector has not been run
NoDetection == [mode |-> "none"]

InitShared ==
    /\ server0 = server
    /\ atBackup = server
    /\ rows = <<>>
    /\ rowIdx = 0
    /\ groups_to_cleanup = {}
    /\ backup_file = [written |-> FALSE, data |-> <<>>]
    /\ calls = <<>>
    /\ mutating = {}
    /\ last = [op |-> "none"]
    /\ moved = {}
    /\ rbIdx = 0
    /\ success_count = 0
    /\ error_count = 0
    /\ slept = 0
    /\ failures = 0
    /\ errors = 0
    /\ api = NewApi
    /\ resp = NoResponse
    /\ sent = NoRequest
    /\ outcome = NoOutcome
    /\ rb_runs = <<>>

InitCommon ==
    /\ InitShared
    /\ det = NoDetection

\* the template replacer has not been started
NoJob == [old_template_id |-> 0, new_template_id |-> 0, check_triggers |-> FALSE]
IdleReplacer ==
    /\ host_templates = <<>>
    /\ zbx_triggers = {}
    /\ job = NoJob
    /\ trigger_data = <<>>
    /\ warned = <<>>

Init ==
    /\ server \in InitServers
    /\ csv \in Csvs
    /\ pc = "start"
    /\ InitCommon
    /\ IdleReplacer

Next ==
    \/ Start
    \/ Backup
    \/ ProcessRow
    \/ Cleanup
    \/ RollbackPrompt
    \/ RollbackGroup

Spec == Init /\ [][Next]_vars

(***************************************************************************)
(* delete_empty_group called directly, next to the runs of the scripts     *)
(***************************************************************************)
InitDirect ==
    /\ server \in InitServers
    /\ csv = <<>>
    /\ pc = "direct"
    /\ InitCommon
    /\ IdleReplacer

NextCleanup ==
    \/ Next
    \/ DeleteEmptyGroupCall

SpecCleanup == (Init \/ InitDirect) /\ [][NextCleanup]_vars

(***************************************************************************)
(* The rename script on servers where one group carries a prefixed name    *)
(***************************************************************************)
OtherNames == {NameY, Offline}
PrefixedServers ==
    {[names |-> n, member |-> m, nextid |-> MaxGroups + 1] :
        n \in {x \in [1..MaxGroups -> {Pre(Letters[i], NameX) :
                                          i \in 1..Len(Letters)}
                                      \cup OtherNames] :
                  /\ \A i, j \in 1..MaxGroups : i # j => x[i] # x[j]
                  /\ \E i \in 1..MaxGroups : x[i] \notin OtherNames},
        m \in [1..MaxHosts -> {{g} : g \in 1..MaxGroups}]}

PrefixCsvs == {<<[orig |-> o, new |-> n]>> : o \in {NameX, NameY},
                                            n \in {NameY, Offline}}

InitPrefix ==
    /\ server \in PrefixedServers
    /\ csv \in PrefixCsvs
    /\ pc = "start"
    /\ InitCommon
    /\ IdleReplacer

SpecPrefix == InitPrefix /\ [][Next]_vars

(***************************************************************************)
(* The API clients on their own                                            *)
(***************************************************************************)
InitApi ==
    /\ server = [names |-> <<>>, member |-> <<>>, nextid |-> 1]
    /\ csv = <<>>
    /\ pc = "api"
    /\ InitCommon
    /\ IdleReplacer

NextApi ==
    \/ ClassLogin
    \/ ClassRequest
    \/ ClassLogout
    \/ ScriptRequest

SpecApi == InitApi /\ [][NextApi]_vars

(***************************************************************************)
(* The template replacer on one host                                       *)
(***************************************************************************)
TemplateIds == 1..MaxTemplates
TemplateLists ==
    {s \in UNION {[1..n -> TemplateIds] : n \in 0..MaxTemplates} : NoDuplicates(s)}

InitReplacer ==
    /\ server = [names |-> <<>>, member |-> <<>>, nextid |-> 1]
    /\ csv = <<>>
    /\ pc = "tr_start"
    /\ InitCommon
    /\ host_templates \in TemplateLists
    /\ zbx_triggers \in SUBSET (1..MaxTriggers)
    /\ job \in [old_template_id : TemplateIds, new_template_id : TemplateIds,
                check_triggers : BOOLEAN]
    /\ trigger_data = <<>>
    /\ warned = <<>>

NextReplacer ==
    \/ ReplaceTemplate
    \/ CheckTriggers
    \/ PromptChoice
    \/ SelectTriggers

SpecReplacer == InitReplacer /\ [][NextReplacer]_vars

(***************************************************************************)
(* The runs that stop at a prompt: the rollback and the template replacer  *)
(***************************************************************************)
NextPrompts ==
    \/ Next
    \/ NextReplacer

SpecPrompts == (Init \/ InitReplacer) /\ [][NextPrompts]_vars

(***************************************************************************)
(* The rename script against a server that answers a name filter with      *)
(* several groups, the answer lines 112-116 of rename_group provide for    *)
(***************************************************************************)
AmbiguousNames == {NameX, Pre("b", NameX), Pre("c", NameX), Offline}
AmbiguousServers ==
    {[names |-> n, member |-> m, nextid |-> MaxGroups + 2] :
        n \in {x \in [1..(MaxGroups + 1) -> AmbiguousNames] :
                  \E i, j \in 1..(MaxGroups + 1) : i # j /\ x[i] = x[j]},
        m \in [1..MaxHosts -> {{g} : g \in 1..(MaxGroups + 1)}]}

AmbiguousCsvs == {<<[orig |-> NameX, new |-> n]>> : n \in {NameY, Offline}}

InitAmbiguous ==
    /\ server \in AmbiguousServers
    /\ csv \in AmbiguousCsvs
    /\ pc = "start"
    /\ InitCommon
    /\ IdleReplacer

SpecAmbiguous == InitAmbiguous /\ [][Next]_vars

(***************************************************************************)
(* The rename script on group names with and without underscores           *)
(***************************************************************************)
RenameOldNames ==
    {NameX, Pre("a", NameX), Pre("a", Pre("b", NameX)), <<"_">> \o NameX}
RenameNewNames ==
    {NameY, Pre("a", NameY), Pre("b", NameY), <<"a">> \o NameY, <<"_">> \o NameY}
RenameServers ==
    {[names |-> n, member |-> m, nextid |-> MaxGroups + 1] :
        n \in {x \in [1..MaxGroups -> RenameOldNames] :
                  \A i, j \in 1..MaxGroups : i # j => x[i] # x[j]},
        m \in [1..MaxHosts -> {{g} : g \in 1..MaxGroups}]}

RenameCsvs == {<<[orig |-> o, new |-> n]>> : o \in RenameOldNames,
                                            n \in RenameNewNames}

InitRename ==
    /\ server \in RenameServers
    /\ csv \in RenameCsvs
    /\ pc = "start"
    /\ InitCommon
    /\ IdleReplacer

SpecRename == InitRename /\ [][Next]_vars

(***************************************************************************)
(* Properties                                                              *)
(***************************************************************************)
AllCallsOk == \A i \in 1..Len(calls) : calls[i].ok
Issued(method) == \E i \in 1..Len(calls) : calls[i].req.method = method
\* no call of either script has ended in an error so far
CleanRun == errors = 0 /\ error_count = 0
OfflineMembers(srv) == UNION {HostsOf(srv, g) : g \in GroupsNamed(srv, Offline)}

\* one invocation of delete_empty_group left a group alone as it must
KeptIfNotEmpty(r) ==
    /\ r.nhosts > 0 => r.empty # "yes"
    /\ r.empty # "yes" => ~r.delete_issued /\ ~r.ret
    /\ r.nhosts > 0 => r.groupid \in GroupIds(server)

\* C1: whenever the emptiness check of a group does not answer "empty" (the
\* group has a host, the check failed, or the id is None or not an integer),
\* delete_empty_group sends no hostgroup.delete and returns False; a group
\* that has a host is never answered "empty", so it is never deleted.
C1_NonEmptyNeverDeleted ==
    /\ last.op = "cleanup" =>
          \A i \in 1..Len(last.trace) : KeptIfNotEmpty(last.trace[i])
    /\ last.op = "delete_empty_group" => KeptIfNotEmpty(last.record)

C1_Witness ==
    /\ last.op = "cleanup"
    /\ \E i \in 1..Len(last.trace) :
          /\ last.trace[i].nhosts > 0
          /\ last.trace[i].empty = "no"
          /\ ~last.trace[i].ret

\* C2: backup, then rollback with nothing changed in between and every call
\* succeeding, leaves every host with the group memberships it started with.
C2_RoundTrip ==
    (pc = "rb_done" /\ rows = <<>> /\ mutating = {} /\ CleanRun)
        => \A h \in HostIds(server0) : server.member[h] = server0.member[h]

\* the hosts an offline row moved that were not in the offline group before
MovedFromElsewhere == {h \in moved : h \notin OfflineMembers(atBackup)}

\* C3: a host the rename script moved into the offline group after the
\* backup is, after a rollback in which every call succeeded, out of the
\* offline group and in a group carrying the name of a group it was in at
\* the backup.
C3_MovedHostRestored ==
    (pc = "rb_done" /\ CleanRun)
        => \A h \in MovedFromElsewhere :
              /\ h \notin OfflineMembers(server)
              /\ \E g \in server.member[h] : \E o \in atBackup.member[h] :
                    server.names[g] = atBackup.names[o]

\* restore_hosts_to_group was entered for the snapshot's hosts
RestorationRan(info) ==
    info.hosts # <<>> =>
        /\ Len(calls) >= 2
        /\ calls[2].req = GetGroupByName(Offline)
        /\ calls[2].ok =>
              \A k \in 1..Len(info.hosts) :
                 \E i \in 3..Len(calls) : calls[i].req = GetHost(info.hosts[k])
        /\ AllCallsOk =>
              \A k \in 1..Len(info.hosts) :
                 last.info.groupid \in server.member[info.hosts[k]]

\* C4: for a snapshot group whose id is still on the server under the
\* snapshot's name, the rollback sends no hostgroup.update, and still runs
\* the restoration of the snapshot's hosts: the offline group is looked up
\* and every host of the snapshot is fetched.
C4_SameNameNoRename ==
    (/\ last.op = "rollback_group"
     /\ last.existed
     /\ calls[1].ok
     /\ last.name_before = last.info.name)
        => /\ ~Issued("hostgroup.update")
           /\ ~Issued("hostgroup.create")
           /\ server.names[last.info.groupid] = last.info.name
           /\ RestorationRan(last.info)

C4_Witness ==
    /\ last.op = "rollback_group"
    /\ last.existed
    /\ last.name_before = last.info.name
    /\ last.path = "same_name"
    /\ last.info.hosts # <<>>
    /\ Issued("host.update")

\* the groups named original_name behind a prefix letter and an underscore
PrefixMatches(srv, original_name) ==
    {g \in GroupIds(srv) :
        \E i \in 1..Len(Letters) :
           srv.names[g] = Pre(Letters[i], original_name)}

\* C5: when no group carries the original name and exactly one group carries
\* it behind a prefix letter and an underscore, rename_group works on that
\* group: it never ends in "not found", nor in "ambiguous".
C5_PrefixResolved ==
    (/\ last.op = "rename_group"
     /\ rowIdx = 2
     /\ GroupsNamed(server0, last.orig) = {}
     /\ Cardinality(PrefixMatches(server0, last.orig)) = 1)
        => /\ last.how \notin {"not_found", "ambiguous"}
           /\ last.resolved # 0 => last.resolved \in PrefixMatches(server0, last.orig)
           /\ AllCallsOk => last.resolved \in PrefixMatches(server0, last.orig)

C5_Witness ==
    /\ last.op = "rename_group"
    /\ rowIdx = 2
    /\ GroupsNamed(server0, last.orig) = {}
    /\ PrefixMatches(server0, last.orig) = {last.resolved}
    /\ server0.names[last.resolved] = Pre("z", last.orig)
    /\ last.how = "renamed"

\* every row of the CSV carries the sentinel as its new name
OnlySentinelRows ==
    csv # <<>> /\ \A i \in 1..Len(csv) : csv[i].new = NoChange

\* C6: a CSV row whose new name is the sentinel never becomes work: no call
\* of rename_group is made for it, and a run whose CSV holds only such rows
\* sends no mutating call and leaves the server as it was.
C6_SentinelSkipped ==
    /\ \A i \in 1..Len(rows) : rows[i].new # NoChange
    /\ last.op = "rename_group" => last.new # NoChange
    /\ OnlySentinelRows =>
          /\ rows = <<>>
          /\ last.op # "rename_group"
          /\ pc \in {"rows", "done"} => mutating = {} /\ server = server0
          /\ pc = "done" => Len(calls) = 0

C6_Witness ==
    /\ OnlySentinelRows
    /\ pc = "done"
    /\ last.op = "cleanup"

\* C7: for a row whose new name is the offline name and whose original name
\* resolves to one group G, rename_group with every call succeeding puts
\* every host of G in the group named offline and in no other, creating
\* that group if needed, returns G's id, and G keeps its name and stays.
C7_OfflineMove ==
    /\ (last.op = "rename_group" /\ last.new = Offline /\ last.resolved # 0
        /\ AllCallsOk) => last.how = "moved"
    /\ (last.op = "rename_group" /\ last.new = Offline /\ last.how = "moved")
          => /\ last.ret = last.resolved
             /\ last.resolved \in GroupIds(server)
             /\ server.names[last.resolved] = last.old_name
             /\ ~Issued("hostgroup.update")
             /\ ~Issued("hostgroup.delete")
             /\ \A h \in last.hosts_before :
                   /\ Cardinality(server.member[h]) = 1
                   /\ server.member[h] \subseteq GroupsNamed(server, Offline)

C7_Witness ==
    /\ last.op = "rename_group"
    /\ last.new = Offline
    /\ last.how = "moved"
    /\ Cardinality(last.hosts_before) = MaxHosts
    /\ Issued("hostgroup.create")
    /\ last.old_name # Offline

\* the five cases in which a call has to fail
ErrorCase(response) ==
    \/ response.transport \in {"timeout", "connection_error"}
    \/ response.transport = "ok" /\ response.status >= 400
    \/ response.transport = "ok" /\ response.body \in {"not_json", "error"}

\* C8: a call through either client ends in an error, never in a returned
\* result, when the transport times out, the connection cannot be made, the
\* HTTP status indicates failure, the body is not JSON, or the JSON carries
\* an "error" member.
C8_ErrorCasesRaise ==
    (sent.client # "none" /\ ErrorCase(resp)) => outcome.kind = "error"

\* C9: in the rollback, a group during whose handling some API call failed
\* is counted as a failure.
C9_FailureCounted ==
    (last.op = "rollback_group" /\ ~AllCallsOk) => last.counted = "error"

\* the snapshot holds each group of srv with its name and hosts
BackupCovers(srv) ==
    /\ \A g \in GroupIds(srv) :
          \E i \in 1..Len(backup_file.data) :
             /\ backup_file.data[i].groupid = g
             /\ backup_file.data[i].name = srv.names[g]
             /\ SeqToSet(backup_file.data[i].hosts) = HostsOf(srv, g)
    /\ Len(backup_file.data) = Cardinality(GroupIds(srv))

\* C10: no mutating call is sent before the backup has been written, and a
\* run whose backup failed ends there, with no mutating call sent and the
\* server as it was; the written backup holds every group of the server.
C10_BackupFirst ==
    /\ pc \in {"start", "backup"} => mutating = {}
    /\ mutating # {} => backup_file.written
    /\ (last.op = "backup" /\ last.exc) => pc = "aborted"
    /\ pc = "aborted" =>
          /\ mutating = {}
          /\ server = server0
          /\ ~backup_file.written
    /\ ~backup_file.written => server = server0
    /\ backup_file.written => BackupCovers(atBackup)
    /\ last.op \in {"rename_group", "cleanup"} => backup_file.written

C10_Witness ==
    /\ last.op = "backup"
    /\ last.exc
    /\ pc = "aborted"
    /\ ReadCsv(csv) # <<>>
    /\ \E i \in 1..Len(csv) : csv[i].new = Offline

\* the host.update calls of the latest handler
HostUpdates == {i \in 1..Len(calls) : calls[i].req.method = "host.update"}

\* C11: every host.update sent while a snapshot group is rolled back carries
\* a group list that is not empty, holds the id the hosts are restored into
\* and holds no id of a group named offline other than that id.
C11_RestoredListSound ==
    last.op = "rollback_group" =>
        \A i \in HostUpdates :
           /\ calls[i].req.groups # <<>>
           /\ last.target \in SeqToSet(calls[i].req.groups)
           /\ \A g \in SeqToSet(calls[i].req.groups) \ {last.target} :
                 g \in GroupIds(server) => server.names[g] # Offline

C11_Witness ==
    /\ last.op = "rollback_group"
    /\ \E i \in HostUpdates :
          /\ calls[i].ok
          /\ calls[i].req.hid \in moved
          /\ calls[i].req.groups = <<last.target>>
          /\ server.names[last.target] # Offline

\* C12: the rollback script sends no API call unless the answer at its
\* prompt is y or Y, and the template replacer sends no trigger.delete
\* unless 1 or 2 was chosen at the deletion prompt.
C12_PromptsGuard ==
    /\ (last.op = "rollback_prompt" /\ backup_file.written
        /\ last.confirm \notin {<<"y">>, <<"Y">>})
          => calls = <<>> /\ pc = "rb_cancelled"
    /\ pc = "rb_cancelled" => last.op = "rollback_prompt" /\ calls = <<>>
    /\ pc \in {"rollback", "rb_aborted"} /\ last.op = "rollback_prompt"
          => last.confirm \in {<<"y">>, <<"Y">>}
    /\ last.op = "rollback_group" => pc \in {"rollback", "rb_done"}
    /\ (last.op \in {"prompt", "prompt_interrupted"}
        /\ Strip(last.typed) \notin {<<"1">>, <<"2">>})
          => /\ ~Issued("trigger.delete")
             /\ zbx_triggers = last.triggers_before
             /\ pc = "tr_done"
    /\ Issued("trigger.delete")
          => \/ last.op = "prompt" /\ Strip(last.typed) = <<"1">>
             \/ last.op = "select"
    /\ pc = "tr_select" => last.op = "prompt" /\ Strip(last.typed) = <<"2">>
    /\ last.op \in {"select", "select_interrupted"} => pc = "tr_done"

C12_Witness ==
    /\ pc = "rb_cancelled"
    /\ last.confirm = <<"n">>
    /\ backup_file.data # <<>>
    /\ mutating # {}

\* the numbers typed at the selection prompt, in the order typed
EnteredNumbers ==
    [k \in 1..Len(Indices(Strip(last.typed))) |->
        Indices(Strip(last.typed))[k].value]
NumberInReport(v) == v \in 1..Len(trigger_data)
NumberOutside(v) == v \notin 1..Len(trigger_data)
\* the trigger.delete requests for the given numbers of the report
DeletesFor(numbers) ==
    [k \in 1..Len(numbers) |-> DeleteTrigger(trigger_data[numbers[k]])]

\* C13: in the selective deletion, for every list of entered numbers, the
\* trigger.delete calls are exactly those for the numbers in 1..len(report),
\* in the order entered; every number outside (0, negative, too large)
\* causes no call and is logged as invalid.
C13_SelectionBounds ==
    (last.op = "select" /\ Strip(last.typed) # <<>>
     /\ AllParsed(Indices(Strip(last.typed))))
        => /\ [i \in 1..Len(calls) |-> calls[i].req]
                 = DeletesFor(SelectSeq(EnteredNumbers, NumberInReport))
           /\ warned = SelectSeq(EnteredNumbers, NumberOutside)
           /\ \A i \in 1..Len(calls) :
                 calls[i].req.id \in SeqToSet(trigger_data)

C13_Witness ==
    /\ last.op = "select"
    /\ Len(warned) = 1
    /\ warned[1] < 0
    /\ Len(calls) = 1
    /\ calls[1].ok
    /\ Len(trigger_data) = MaxTriggers

\* C14: when the old template is attached to the host, replace_host_template
\* pushes a list as long as the host's current list, in the same order, with
\* the new id wherever the old id stood and every other element unchanged.
C14_TemplateListReplaced ==
    (/\ last.op = "replace_host_template"
     /\ job.old_template_id \in SeqToSet(last.current))
        => /\ Len(calls) = 2
           /\ calls[2].req.method = "host.update"
           /\ calls[2].req.id = TheHost
           /\ Len(calls[2].req.templates) = Len(last.current)
           /\ \A i \in 1..Len(last.current) :
                 calls[2].req.templates[i] =
                    IF last.current[i] = job.old_template_id
                    THEN job.new_template_id ELSE last.current[i]
           /\ calls[2].ok => last.ret /\ host_templates = calls[2].req.templates
           /\ ~calls[2].ok => ~last.ret

C14_Witness ==
    /\ last.op = "replace_host_template"
    /\ last.how = "replaced"
    /\ Len(last.current) = 2
    /\ last.current[2] = job.old_template_id
    /\ job.new_template_id # job.old_template_id
    /\ host_templates = <<last.current[1], job.new_template_id>>

\* the emptiness checks (host.get by group) among the latest handler's calls
EmptinessChecks ==
    {i \in 1..Len(calls) :
        calls[i].req.method = "host.get" /\ calls[i].req.by = "group"}

\* one record of the cleanup pass: the group went if and only if it had no host
DeletedIffEmpty(r) ==
    /\ r.empty = (IF r.nhosts = 0 THEN "yes" ELSE "no")
    /\ r.delete_issued <=> r.nhosts = 0
    /\ r.ret <=> r.nhosts = 0
    /\ r.groupid \in GroupIds(server) <=> r.nhosts > 0

\* C15: no emptiness check and no hostgroup.delete is sent before the last
\* row of the CSV has been processed; the cleanup pass that follows handles
\* only ids returned by offline rows, each at most once, never deletes a
\* group that has a host, and, when its calls succeed, checks every such id
\* exactly once and deletes the group if and only if it has no host then.
C15_CleanupPostPass ==
    /\ pc \in {"start", "backup", "rows"} =>
          /\ EmptinessChecks = {}
          /\ ~Issued("hostgroup.delete")
          /\ \A m \in mutating : m.method # "hostgroup.delete"
    /\ last.op = "rename_group" =>
          EmptinessChecks = {} /\ ~Issued("hostgroup.delete")
    /\ \A g \in groups_to_cleanup :
          \E i \in 1..(rowIdx - 1) : i <= Len(rows) /\ rows[i].new = Offline
    /\ last.op = "cleanup" =>
          /\ rowIdx = Len(rows) + 1
          /\ \A i \in 1..Len(last.trace) :
                /\ last.trace[i].groupid \in groups_to_cleanup
                /\ last.trace[i].delete_issued => last.trace[i].nhosts = 0
                /\ \A j \in 1..Len(last.trace) :
                      last.trace[i].groupid = last.trace[j].groupid => i = j
          /\ Cardinality(EmptinessChecks) <= Len(last.trace)
          /\ Cardinality(CallsOf(calls, {"hostgroup.delete"})) <= Len(last.trace)
          /\ AllCallsOk =>
                /\ Len(last.trace) = Cardinality(groups_to_cleanup)
                /\ Cardinality(EmptinessChecks) = Cardinality(groups_to_cleanup)
                /\ \A i \in 1..Len(last.trace) : DeletedIffEmpty(last.trace[i])

C15_Witness ==
    /\ last.op = "cleanup"
    /\ AllCallsOk
    /\ Len(rows) >= 2
    /\ Len(last.trace) = 2
    /\ last.trace[1].nhosts = 0 /\ last.trace[1].ret
    /\ last.trace[2].nhosts > 0 /\ ~last.trace[2].ret

\* the k-th name rename_group asks for: the exact name, then a_, ..., z_
Candidate(original_name, k) ==
    IF k = 1 THEN original_name ELSE Pre(Letters[k - 1], original_name)

\* the position of the first name, from the k-th on, that some group carries,
\* 0 if none
RECURSIVE FirstHitFrom(_, _, _)
FirstHitFrom(srv, original_name, k) ==
    IF k > Len(Letters) + 1 THEN 0
    ELSE IF GroupsNamed(srv, Candidate(original_name, k)) # {} THEN k
    ELSE FirstHitFrom(srv, original_name, k + 1)
FirstHit(srv, original_name) == FirstHitFrom(srv, original_name, 1)

\* the groups carrying the first name that some group carries
FirstMatchesAt(srv, original_name, k) ==
    IF k = 0 THEN {} ELSE GroupsNamed(srv, Candidate(original_name, k))
FirstMatches(srv, original_name) ==
    FirstMatchesAt(srv, original_name, FirstHit(srv, original_name))

\* C16: a row whose lookup is answered with more than one group is skipped:
\* rename_group returns None, sends no hostgroup.update, host.update or
\* hostgroup.create, leaves the server as it was and adds nothing to the ids
\* kept for cleanup.
C16_AmbiguousSkipped ==
    [][(/\ last'.op = "rename_group"
        /\ rowIdx' = rowIdx + 1
        /\ \A i \in 1..Len(calls') : calls'[i].ok
        /\ Cardinality(FirstMatches(server, last'.orig)) > 1)
          => /\ last'.ret = PyNone
             /\ last'.how = "ambiguous"
             /\ \A i \in 1..Len(calls') :
                   calls'[i].req.method = "hostgroup.get"
             /\ Len(calls') = FirstHit(server, last'.orig)
             /\ server' = server
             /\ mutating' = mutating
             /\ groups_to_cleanup' = groups_to_cleanup]_vars

C16_Witness ==
    /\ last.op = "rename_group"
    /\ last.how = "ambiguous"
    /\ last.new = Offline
    /\ Len(calls) = 3
    /\ Cardinality(GroupsNamed(server, Pre("b", NameX))) = 2
    /\ \E h \in HostIds(server) :
          server.member[h] \subseteq GroupsNamed(server, Pre("b", NameX))

\* the position of the first underscore of a name that has one
FirstUnderscore(s) ==
    CHOOSE i \in 1..Len(s) : s[i] = "_" /\ \A j \in 1..(i - 1) : s[j] # "_"
\* the name up to and including its first underscore
UpToUnderscore(s) == SubSeq(s, 1, FirstUnderscore(s))
\* the name carried by the latest call of the latest handler
NameSent == calls[Len(calls)].req.name

\* C17: a row that is not an offline row and whose lookup matched one group
\* sends hostgroup.update for that group; when the group's current name has
\* an underscore the name sent starts with the current name up to and
\* including its first underscore, being new_name itself when new_name
\* starts so already and that prefix followed by new_name otherwise; when
\* the current name has no underscore the name sent is new_name.
C17_PrefixPreserved ==
    (/\ last.op = "rename_group"
     /\ last.new # Offline
     /\ last.resolved # 0)
        => /\ calls # <<>>
           /\ calls[Len(calls)].req.method = "hostgroup.update"
           /\ calls[Len(calls)].req.gid = last.resolved
           /\ Cardinality(CallsOf(calls, {"hostgroup.update"})) = 1
           /\ HasUnderscore(last.old_name) =>
                 /\ StartsWith(NameSent, UpToUnderscore(last.old_name))
                 /\ NameSent =
                       IF StartsWith(last.new, UpToUnderscore(last.old_name))
                       THEN last.new
                       ELSE UpToUnderscore(last.old_name) \o last.new
           /\ ~HasUnderscore(last.old_name) => NameSent = last.new
           /\ calls[Len(calls)].ok => server.names[last.resolved] = NameSent

C17_Witness ==
    /\ last.op = "rename_group"
    /\ last.how = "renamed"
    /\ last.old_name = Pre("a", Pre("b", NameX))
    /\ last.new = Pre("b", NameY)
    /\ server.names[last.resolved] = Pre("a", Pre("b", NameY))

\* the positions, among the latest handler's calls, of the lookups of the
\* original name and of its prefixed forms (a row's names are never the
\* offline name here, which move_hosts_to_group looks up)
LookupCalls ==
    {k \in 1..Len(calls) :
        /\ calls[k].req.method = "hostgroup.get"
        /\ calls[k].req.by = "name"
        /\ calls[k].req.name # Offline}

\* what C18 says of a handler whose first hit is at position hit (0: none)
LookupOrderFor(hit) ==
    /\ calls # <<>>
    /\ calls[1].req = GetGroupByName(last.orig)
    /\ \A k \in LookupCalls :
          /\ k <= Len(Letters) + 1
          /\ calls[k].req = GetGroupByName(Candidate(last.orig, k))
          /\ k > 1 =>
                /\ k - 1 \in LookupCalls
                /\ calls[k - 1].ok
                /\ GroupsNamed(server0, Candidate(last.orig, k - 1)) = {}
    /\ last.resolved # 0 =>
          /\ last.resolved \in FirstMatchesAt(server0, last.orig, hit)
          /\ Cardinality(LookupCalls) = hit
    /\ (AllCallsOk /\ hit # 0) =>
          last.resolved \in FirstMatchesAt(server0, last.orig, hit)
    /\ (AllCallsOk /\ hit = 0) =>
          /\ last.how = "not_found"
          /\ Len(calls) = Len(Letters) + 1

\* C18: rename_group asks for the exact name first and for a prefixed name
\* only after every name before it, in the order exact, a_, b_, ..., z_, was
\* answered with nothing; no name after the first one that is answered with
\* a group is asked for, and the group worked on carries that first name.
C18_LookupOrder ==
    (last.op = "rename_group" /\ rowIdx = 2) =>
        LookupOrderFor(FirstHit(server0, last.orig))

C18_Witness ==
    /\ last.op = "rename_group"
    /\ rowIdx = 2
    /\ last.how = "renamed"
    /\ last.orig = NameX
    /\ Cardinality(PrefixMatches(server0, NameX)) = 2
    /\ server0.names[last.resolved] = Pre("c", NameX)
    /\ \E g \in GroupIds(server0) : server0.names[g] = Pre("q", NameX)
    /\ Cardinality(LookupCalls) = 4

\* C19: when the snapshot's group id is no longer on the server, the rollback
\* sends hostgroup.create with the snapshot's name and no hostgroup.update;
\* the hosts of the snapshot are restored into the id the create returned,
\* which is not the snapshot's id: every host.update is for a host of the
\* snapshot and lists the new id and not the snapshot's, and when every call
\* succeeds each host of the snapshot ends in the new group.
C19_RecreatedTarget ==
    (/\ last.op = "rollback_group"
     /\ ~last.existed
     /\ calls[1].ok)
        => /\ Len(calls) >= 2
           /\ calls[1].req = GetGroupById(last.info.groupid)
           /\ calls[2].req = CreateGroup(last.info.name)
           /\ ~Issued("hostgroup.update")
           /\ Cardinality(CallsOf(calls, {"hostgroup.create"})) = 1
           /\ ~calls[2].ok => Len(calls) = 2 /\ last.counted = "error"
           /\ calls[2].ok =>
                 /\ last.target # last.info.groupid
                 /\ last.target \in GroupIds(server)
                 /\ server.names[last.target] = last.info.name
                 /\ last.info.groupid \notin GroupIds(server)
                 /\ \A i \in HostUpdates :
                       /\ i > 2
                       /\ calls[i].req.hid \in SeqToSet(last.info.hosts)
                       /\ last.target \in SeqToSet(calls[i].req.groups)
                       /\ last.info.groupid \notin SeqToSet(calls[i].req.groups)
                 /\ AllCallsOk =>
                       /\ last.path = "recreated"
                       /\ \A h \in SeqToSet(last.info.hosts) :
                             /\ last.target \in server.member[h]
                             /\ \E i \in HostUpdates : calls[i].req.hid = h

C19_Witness ==
    /\ last.op = "rollback_group"
    /\ ~last.existed
    /\ last.path = "recreated"
    /\ AllCallsOk
    /\ last.info.hosts # <<>>
    /\ last.target # last.info.groupid
    /\ \A h \in SeqToSet(last.info.hosts) : last.target \in server.member[h]

\* the calls restore_hosts_to_group makes among the latest handler's calls
RestoreCalls ==
    {i \in 1..Len(calls) :
        \/ calls[i].req = GetGroupByName(Offline)
        \/ calls[i].req.method \in {"host.get", "host.update"}}
\* the renames among the latest handler's calls
RenameCalls == CallsOf(calls, {"hostgroup.update"})

\* C20: for a snapshot group whose id is still on the server, the calls of
\* the host restoration all come before the hostgroup.update, which is the
\* last call, carries the snapshot's id and name and is sent only when the
\* current name differs from the snapshot's; the restoration is entered
\* whatever the names are, and when it has not raised and the names differ
\* the rename is sent.
C20_RestoreThenRename ==
    (/\ last.op = "rollback_group"
     /\ last.existed
     /\ calls[1].ok)
        => /\ ~Issued("hostgroup.create")
           /\ Cardinality(RenameCalls) <= 1
           /\ \A u \in RenameCalls :
                 /\ u = Len(calls)
                 /\ calls[u].req = UpdateGroup(last.info.groupid, last.info.name)
                 /\ last.name_before # last.info.name
                 /\ \A i \in RestoreCalls : i < u
           /\ last.info.hosts # <<>> =>
                 /\ Len(calls) >= 2
                 /\ calls[2].req = GetGroupByName(Offline)
                 /\ calls[2].ok =>
                       \A k \in 1..Len(last.info.hosts) :
                          \E i \in RestoreCalls :
                             calls[i].req = GetHost(last.info.hosts[k])
           /\ last.info.hosts = <<>> => RestoreCalls = {}
           /\ (/\ last.name_before # last.info.name
               /\ last.info.hosts # <<>> => calls[2].ok)
                 => RenameCalls # {}
           /\ last.target = last.info.groupid

C20_Witness ==
    /\ last.op = "rollback_group"
    /\ last.existed
    /\ last.path = "renamed"
    /\ last.name_before # last.info.name
    /\ Len(last.info.hosts) = MaxHosts
    /\ Cardinality(CallsOf(calls, {"host.update"})) = MaxHosts
    /\ calls[Len(calls)].req.method = "hostgroup.update"
    /\ server.names[last.info.groupid] = last.info.name

\* C27: the rollback counts every snapshot group once: after each iteration
\* success_count + error_count is the number of groups handled so far, the
\* group just handled is on exactly one side, and at the end the sum is the
\* number of groups of the snapshot.
C27_EveryGroupCounted ==
    /\ pc \in {"rollback", "rb_done"} =>
          /\ success_count + error_count = rbIdx - 1
          /\ rbIdx - 1 <= Len(backup_file.data)
    /\ pc = "rb_done" =>
          success_count + error_count = Len(backup_file.data)
    /\ last.op = "rollback_group" =>
          /\ last.counted \in {"success", "error"}
          /\ last.counted = "success" => success_count >= 1
          /\ last.counted = "error" => error_count >= 1
          /\ last.path \in {"recreated", "renamed", "same_name"} =>
                last.counted = "success"
          /\ last.path \in {"recreate_failed", "exception"} =>
                last.counted = "error"

C27_Witness ==
    /\ pc = "rb_done"
    /\ last.op = "rollback_group"
    /\ last.path = "recreated"
    /\ Len(backup_file.data) = MaxGroups
    /\ success_count = 1
    /\ error_count = 1

\* the group ids a hostgroup.delete has been sent for so far
DeleteTargets == {m.gid : m \in {x \in mutating : x.method = "hostgroup.delete"}}

\* C28: in every step of a run of the rename script, an id is added to the
\* ids kept for cleanup only by an offline row whose rename_group call
\* returned that id, the id of the group the row matched; every
\* hostgroup.delete sent so far is for a kept id, and a group that has gone
\* from the server is a kept one.
C28_DeleteOnlyOfflineIds ==
    [][/\ groups_to_cleanup' # groups_to_cleanup =>
             /\ last'.op = "rename_group"
             /\ last'.new = Offline
             /\ last'.how = "moved"
             /\ last'.ret = last'.resolved
             /\ last'.resolved \in GroupIds(server)
             /\ groups_to_cleanup' = groups_to_cleanup \cup {last'.ret}
       /\ (last'.op = "rename_group" /\ last'.new # Offline) =>
             groups_to_cleanup' = groups_to_cleanup
       /\ DeleteTargets' \subseteq groups_to_cleanup'
       /\ DeleteTargets' # DeleteTargets => last'.op = "cleanup"
       /\ (GroupIds(server) \ GroupIds(server')) \subseteq groups_to_cleanup'
      ]_vars

C28_Witness ==
    /\ last.op = "cleanup"
    /\ Len(rows) = 2
    /\ rows[1].new = Offline
    /\ rows[2].new = NameY
    /\ Cardinality(DeleteTargets) = 1
    /\ \E m \in mutating : m.method = "hostgroup.update" /\ m.ok
                           /\ m.gid \notin DeleteTargets
                           /\ m.gid \in GroupIds(server)
    /\ \E g \in DeleteTargets : g \notin GroupIds(server)

\* the fields of the line typed at the selection prompt
TypedFields == SplitComma(Strip(last.typed), <<>>)

\* C29: when some comma-separated field of the typed line is not an integer,
\* the selection sends no trigger.delete at all, deletes nothing and reports
\* no number as invalid, whatever valid numbers stand before that field.
C29_ParseBeforeDelete ==
    (/\ last.op = "select"
     /\ \E k \in 1..Len(TypedFields) : ~ParseInt(TypedFields[k]).ok)
        => /\ calls = <<>>
           /\ zbx_triggers = last.triggers_before
           /\ last.success_count = 0
           /\ warned = <<>>
           /\ pc = "tr_done"

C29_Witness ==
    /\ last.op = "select"
    /\ Len(TypedFields) = 2
    /\ ParseInt(TypedFields[1]).ok
    /\ ParseInt(TypedFields[1]).value = 1
    /\ ~ParseInt(TypedFields[2]).ok
    /\ TypedFields[2] # <<>>
    /\ trigger_data # <<>>
    /\ trigger_data[1] \in zbx_triggers
    /\ calls = <<>>

\* the failed host.update calls of a handler
FailedMoves(cs) ==
    {i \in 1..Len(cs) : cs[i].req.method = "host.update" /\ ~cs[i].ok}
\* the hosts a handler sent a host.update for
HostsTried(cs) == {cs[i].req.hid : i \in CallsOf(cs, {"host.update"})}

\* C30: in a step of the row loop for an offline row in which a host.update
\* fails, that call is the last one of the step: the hosts moved before it
\* are in the offline group alone, the failed host and the hosts after it
\* keep their groups, rename_group returns None, nothing is added to the
\* ids kept for cleanup, the matched group stays on the server, and the loop
\* goes on to the next row.
C30_PartialOfflineMove ==
    [][(/\ last'.op = "rename_group"
        /\ rowIdx' = rowIdx + 1
        /\ last'.new = Offline
        /\ FailedMoves(calls') # {})
          => /\ FailedMoves(calls') = {Len(calls')}
             /\ last'.ret = PyNone
             /\ last'.how = "failed"
             /\ \A i \in CallsOf(calls', {"host.update"}) :
                   /\ calls'[i].req.hid \in last'.hosts_before
                   /\ calls'[i].ok =>
                         /\ server'.member[calls'[i].req.hid]
                               = SeqToSet(calls'[i].req.groups)
                         /\ server'.member[calls'[i].req.hid]
                               \subseteq GroupsNamed(server', Offline)
                   /\ ~calls'[i].ok =>
                         server'.member[calls'[i].req.hid]
                            = server.member[calls'[i].req.hid]
             /\ \A h \in HostIds(server) \ HostsTried(calls') :
                   server'.member[h] = server.member[h]
             /\ groups_to_cleanup' = groups_to_cleanup
             /\ last'.resolved \in GroupIds(server')
             /\ \E i \in FailedMoves(calls') :
                   last'.resolved \in server'.member[calls'[i].req.hid]
             /\ pc' = "rows"]_vars

C30_Witness ==
    /\ last.op = "rename_group"
    /\ last.new = Offline
    /\ last.how = "failed"
    /\ Cardinality(last.hosts_before) = MaxHosts
    /\ Cardinality(CallsOf(calls, {"host.update"})) = MaxHosts
    /\ FailedMoves(calls) = {Len(calls)}
    /\ calls[Len(calls) - 1].ok
    /\ rowIdx <= Len(rows)
    /\ last.resolved \notin groups_to_cleanup

\* C22: in the rollback, a pause has been taken after every snapshot group
\* handled so far, whichever path the group took.
C22_PauseAfterEveryGroup ==
    pc \in {"rollback", "rb_done"} => slept = rbIdx - 1

\* C24: in a ZabbixAPI session, the user.login request carries no
\* Authorization header and the token kept is the value it returned; every
\* request sent between a login that returned a token and the logout carries
\* that token as its bearer, and leaves it in place; the logout sends
\* user.logout with the token and clears it whether the call succeeded or
\* raised; a closed session holds no token.  call_api of the scripts always
\* carries the bearer it was handed.
C24_BearerToken ==
    [][/\ (api.phase = "new" /\ api'.phase \in {"session", "closed"}) =>
             /\ sent'.method = "user.login"
             /\ sent'.authorization = NoToken
             /\ outcome'.kind = "result" =>
                   api'.phase = "session" /\ api'.auth_token = outcome'.value
             /\ outcome'.kind = "error" =>
                   api'.phase = "closed" /\ api'.auth_token = NoToken
       /\ (api.phase = "session" /\ api'.phase = "session") =>
             /\ sent'.method \notin {"user.login", "user.logout"}
             /\ api'.auth_token = api.auth_token
             /\ api.auth_token # NoToken =>
                   sent'.authorization = api.auth_token
       /\ (api.phase = "session" /\ api'.phase = "closed") =>
             /\ api'.auth_token = NoToken
             /\ api.auth_token # NoToken =>
                   /\ sent'.method = "user.logout"
                   /\ sent'.authorization = api.auth_token
                   /\ outcome'.kind \in {"result", "error"}
       /\ api'.phase = "closed" => api'.auth_token = NoToken
       /\ sent'.client = "call_api" => sent'.authorization \in Tokens
      ]_vars

C24_Witness ==
    /\ api.phase = "closed"
    /\ sent.method = "user.logout"
    /\ sent.authorization \in Tokens
    /\ outcome.kind = "error"
    /\ api.auth_token = NoToken
    /\ api.request_id > 3

\* the prompts that ended in a keyboard interrupt
InterruptedOps ==
    {"rollback_prompt_interrupted", "prompt_interrupted", "select_interrupted"}

\* C26: a keyboard interrupt at a prompt is taken as a skip: no call follows
\* it and the script ends as it does after a declined prompt.
C26_InterruptIsSkip ==
    last.op \in InterruptedOps =>
        /\ calls = <<>>
        /\ pc \in {"rb_cancelled", "tr_done"}

(***************************************************************************)
(* The rollback script run again after a run of it has ended               *)
(***************************************************************************)
NextRerun ==
    \/ Next
    \/ RollbackAgain

SpecRerun == Init /\ [][NextRerun]_vars

\* the run before the current one: every call of the whole history up to its
\* end succeeded and every snapshot group was counted a success
FirstRunClean ==
    /\ Len(rb_runs) = 1
    /\ rb_runs[1].errors = 0
    /\ rb_runs[1].error_count = 0
    /\ rb_runs[1].success_count = Len(backup_file.data)

\* C23: a rollback run right after a run in which every call succeeded,
\* recreated groups included, issues no hostgroup.create and no
\* hostgroup.update.
C23_SecondRunNoOp ==
    (FirstRunClean /\ last.op = "rollback_group") =>
        /\ ~Issued("hostgroup.create")
        /\ ~Issued("hostgroup.update")

\* the part of C23 that the code does keep: without recreated groups in the
\* first run, the second run issues neither call
C23_SecondRunNoOpExisting ==
    (/\ FirstRunClean
     /\ last.op = "rollback_group"
     /\ last.info.groupid \in GroupIds(rb_runs[1].server)) =>
        /\ ~Issued("hostgroup.create")
        /\ ~Issued("hostgroup.update")

(***************************************************************************)
(* The detector on its own                                                 *)
(***************************************************************************)
DetectorInputs ==
    {DetectorIdle("host", FALSE, <<>>)}
    \cup {DetectorIdle("host", TRUE, <<h>>) : h \in HostKinds}
    \cup {DetectorIdle("hostgroup", FALSE, <<>>)}
    \cup {DetectorIdle("hostgroup", TRUE, hs) :
            hs \in UNION {[1..n -> GroupHostKinds] : n \in 0..MaxGroupHosts}}

InitDetector ==
    /\ server = [names |-> <<>>, member |-> <<>>, nextid |-> 1]
    /\ csv = <<>>
    /\ pc = "det_start"
    /\ InitShared
    /\ IdleReplacer
    /\ det \in DetectorInputs

NextDetector ==
    \/ DetectStart
    \/ DetectHostIssues
    \/ DetectReport

SpecDetector == InitDetector /\ [][NextDetector]_vars

\* the templateid values that mean "not from a template": the member is
\* missing, empty, or "0"
NoTemplateId == {Missing, "", "0"}

InSeq(x, s) == \E i \in 1..Len(s) : s[i] = x

\* the ids of the triggers under item i of host h that are not from a template
NestedNonTemplate(h, i) ==
    {10 * i + j : j \in {n \in 1..Len(h.items[i].triggers) :
                            h.items[i].triggers[n].templateid \in NoTemplateId}}

\* C25: in every host result an item (a trigger) is in the non-template list
\* exactly when its templateid is missing, empty or "0", and in the disabled
\* list exactly when its status is "1", each test on its own; an item has an
\* entry of non-template triggers exactly when its templateid is non-empty and
\* not "0" and at least one of its triggers is non-template, and the entry
\* lists exactly those triggers.
C25_Classification ==
    \A k \in 1..Len(det.results) :
       /\ \A i \in 1..Len(det.hosts[det.results[k].host_id].items) :
             /\ InSeq(i, det.results[k].non_template_items)
                  <=> det.hosts[det.results[k].host_id].items[i].templateid
                         \in NoTemplateId
             /\ InSeq(i, det.results[k].disabled_items)
                  <=> det.hosts[det.results[k].host_id].items[i].status = "1"
             /\ (\E e \in 1..Len(det.results[k].template_items_with_non_template_triggers) :
                    det.results[k].template_items_with_non_template_triggers[e].item_id = i)
                  <=> /\ det.hosts[det.results[k].host_id].items[i].templateid
                            \notin NoTemplateId
                      /\ NestedNonTemplate(det.hosts[det.results[k].host_id], i) # {}
       /\ \A e \in 1..Len(det.results[k].template_items_with_non_template_triggers) :
             {det.results[k].template_items_with_non_template_triggers[e].non_template_triggers[j] :
                 j \in 1..Len(det.results[k].template_items_with_non_template_triggers[e].non_template_triggers)}
               = NestedNonTemplate(det.hosts[det.results[k].host_id],
                                   det.results[k].template_items_with_non_template_triggers[e].item_id)
       /\ \A t \in 1..Len(det.hosts[det.results[k].host_id].triggers) :
             /\ InSeq(t, det.results[k].non_template_triggers)
                  <=> det.hosts[det.results[k].host_id].triggers[t].templateid
                         \in NoTemplateId
             /\ InSeq(t, det.results[k].disabled_triggers)
                  <=> det.hosts[det.results[k].host_id].triggers[t].status = "1"
       /\ det.results[k].summary.non_template_items
            = Cardinality({i \in 1..Len(det.hosts[det.results[k].host_id].items) :
                 det.hosts[det.results[k].host_id].items[i].templateid \in NoTemplateId})
       /\ det.results[k].summary.disabled_items
            = Cardinality({i \in 1..Len(det.hosts[det.results[k].host_id].items) :
                 det.hosts[det.results[k].host_id].items[i].status = "1"})

\* a host result in which one item is in both lists, another item of a
\* template carries a non-template trigger, and a trigger is in both lists
C25_Witness ==
    /\ pc = "det_done"
    /\ det.mode = "host"
    /\ det.report.written
    /\ \E i \in 1..Len(det.hosts[1].items) :
          /\ InSeq(i, det.results[1].non_template_items)
          /\ InSeq(i, det.results[1].disabled_items)
    /\ det.results[1].template_items_with_non_template_triggers # <<>>
    /\ \E t \in 1..Len(det.hosts[1].triggers) :
          /\ InSeq(t, det.results[1].non_template_triggers)
          /\ InSeq(t, det.results[1].disabled_triggers)

\* the hosts of the group for which a request of their check failed
HostsFailed ==
    {det.calls[i].host_id : i \in {n \in 1..Len(det.calls) :
        /\ det.calls[n].method \in {"item.get", "trigger.get"}
        /\ ~det.calls[n].ok}}

\* the hosts of the group whose check was begun
HostsBegun ==
    {det.calls[i].host_id : i \in {n \in 1..Len(det.calls) :
        det.calls[n].method = "item.get"}}

\* C21: when detect_by_hostgroup meets an API error while checking one host
\* of the group, that host is abandoned, the remaining hosts of the group are
\* still checked, and the hosts that were checked are reported.
C21_HostErrorAbandonsHostOnly ==
    (/\ det.mode = "hostgroup"
     /\ pc \in {"det_done", "det_failed"}
     /\ HostsFailed # {}) =>
        /\ HostsBegun = 1..Len(det.hosts)
        /\ det.report.written
        /\ {det.report.host_ids[i] : i \in 1..Len(det.report.host_ids)}
             = (1..Len(det.hosts)) \ HostsFailed

====
